---- MODULE Spec2Model ----
(***************************************************************************)
(* A model of whisperGUI.py: the prompt profile store (PromptManager), the *)
(* prompt profile dropdown it keeps in sync, the selection-changed events  *)
(* it queues to the dispatch loop of start_GUI, the modal window manager   *)
(* the loop reconciles once per iteration, and the dispatch loop itself    *)
(* with its windows, its window tracker, the transcriber and the worker    *)
(* threads that send it notifications.                                     *)
(***************************************************************************)
EXTENDS Integers, Sequences, FiniteSets, TLC

VARIABLES
    saved_prompt_profiles,  \* PromptManager._saved_prompt_profiles: a dict, as
                            \* the sequence of its items in insertion order
    user_settings,          \* the settings store: key -> value, absent keys
                            \* are outside its DOMAIN
    dropdown,               \* the bound Combo: [bound, values, value] and
                            \* window, the window it is in (_dropdown_window)
    event_queue,            \* values written by write_event_value, not yet read
    initial_prompt_input,   \* text of the Keys.INITIAL_PROMPT_INPUT field
    call,                   \* the last call: its arguments, how it ended, its
                            \* effects in order and the state it started from
    window_closed,          \* window id -> closed?
    modal_window_stack,     \* tracked modal windows, oldest first
    modal_windows,          \* the windows that hold the modal grab
    modal_call,             \* ModalSpec: the last operation on the manager
    pc,                     \* where start_GUI is: "start", "loop", "closed"
                            \* or "crashed" (left by an exception)
    window_kind,            \* window id -> which window it is
    window_data,            \* window id -> [metadata, table, location]: the
                            \* metadata of its Keys.NEW_PROFILE_NAME input,
                            \* the rows of its Keys.SAVED_PROMPTS_TABLE and
                            \* where it is on the screen
    window_tracker_windows, \* WindowTracker.windows
    main_window,            \* start_GUI's references to windows, 0 for None
    prompt_manager_window,
    add_new_prompt_window,
    active_meter,           \* the window of QuickMeter.active_meters[
                            \* Keys.PROGRESS], 0 when there is no such meter
    meter_cancelled,        \* the user clicked Cancel on the meter and the
                            \* meter has not read the click yet
    transcriber,            \* the Transcriber: [state, transcribe_thread,
                            \* num_tasks, num_tasks_done, started_at]
    workers,                \* job -> its worker thread: [n, k, stop, ended]
    thread_queue,           \* notifications the workers wrote, not yet read
    job_log,                \* job -> the notifications of the job the loop
                            \* has dispatched, each with the job the
                            \* transcriber held and the done() calls of the
                            \* iteration
    last                    \* the last iteration of the loop

store_vars == <<saved_prompt_profiles, user_settings, dropdown, event_queue,
                initial_prompt_input, call>>
modal_vars == <<window_closed, modal_window_stack, modal_windows, modal_call>>
loop_vars == <<pc, window_kind, window_data, window_tracker_windows, main_window,
               prompt_manager_window, add_new_prompt_window, active_meter,
               meter_cancelled, transcriber, workers, thread_queue, job_log,
               last>>
vars == <<store_vars, modal_vars, loop_vars>>

----------------------------------------------------------------------------
(* Bounds *)

\* how many selection-changed events may wait in the queue
MaxQueue == 1
\* how many windows are ever made in a run that starts a job
MaxWindows == 3
\* how many windows are ever made while no job has been started
MaxIdleWindows == 4
\* how many jobs are ever started
MaxJobs == 2
\* how many selection-changed events may wait in the queue when the loop may
\* read an event of the user before a waiting one
MaxPending == 2

----------------------------------------------------------------------------
(* Strings *)

unsaved_prompt_profile_name == "(None)"
SAVED_PROMPTS_SETTINGS == "SAVED PROMPTS"
PROMPT_PROFILE_DROPDOWN == "-PROMPT-PROFILE-"

\* Python's None (the default of original_profile_name)
None == "<None>"
\* Python's Ellipsis (the default of new_selected_profile)
Ellipsis == "<...>"

\* The strings of the model in Python's ascending str order (by code point:
\* "" < " " < "(" < "A" < "B" < ...).
StrOrder == <<"", " ", "(None)", "A", "B">>

Rank(s) == CHOOSE i \in 1..Len(StrOrder) : StrOrder[i] = s

\* a < b for Python str
str_lt(a, b) == Rank(a) < Rank(b)

\* str.strip(): leading and trailing whitespace removed
strip(s) == IF s = " " THEN "" ELSE s

\* The arguments the calls are made with: names that can be saved, the
\* reserved name, an empty and a whitespace-only name.
ProfileNames == {"A", "B"}
KeyInputs == {unsaved_prompt_profile_name} \cup ProfileNames
NameInputs == {"", " "} \cup KeyInputs
Prompts == {"p1", "p2"}

----------------------------------------------------------------------------
(* dict and list operations *)

keys(d) == [i \in 1..Len(d) |-> d[i].name]

SeqToSet(s) == {s[i] : i \in 1..Len(s)}

HasKey(d, k) == \E i \in 1..Len(d) : d[i].name = k

\* d[k] for a key that is present
dict_getitem(d, k) == d[CHOOSE i \in 1..Len(d) : d[i].name = k].prompt

\* d.get(k, default)
dict_get(d, k, default) == IF HasKey(d, k) THEN dict_getitem(d, k) ELSE default

\* del d[k] for a key that is present (an absent key raises KeyError)
dict_delitem(d, k) == SelectSeq(d, LAMBDA e : e.name # k)

\* d[k] = v: an existing key keeps its position, a new key goes last
dict_setitem(d, k, v) ==
    IF HasKey(d, k)
    THEN [i \in 1..Len(d) |-> IF d[i].name = k THEN [name |-> k, prompt |-> v]
                                               ELSE d[i]]
    ELSE Append(d, [name |-> k, prompt |-> v])

RECURSIVE insert_sorted(_, _)
insert_sorted(s, x) ==
    IF s = <<>> THEN <<x>>
    ELSE IF str_lt(x, Head(s)) THEN <<x>> \o s
    ELSE <<Head(s)>> \o insert_sorted(Tail(s), x)

\* sorted(names), ascending
RECURSIVE sorted(_)
sorted(s) == IF s = <<>> THEN <<>>
             ELSE insert_sorted(sorted(Tail(s)), Head(s))

----------------------------------------------------------------------------
(* The settings store (sg.user_settings_get_entry / _set_entry) *)

user_settings_get_entry(us, key, default) ==
    IF key \in DOMAIN us THEN us[key] ELSE default

user_settings_set_entry(us, key, value) ==
    [k \in DOMAIN us \cup {key} |-> IF k = key THEN value ELSE us[k]]

----------------------------------------------------------------------------
(* PromptManager.  Its methods are operators on the record pm:             *)
(*   saved    self._saved_prompt_profiles                                  *)
(*   settings the settings store                                           *)
(*   dropdown the bound Combo element: bound is FALSE while                *)
(*            _dropdown_window / _dropdown_key are None                    *)
(*   queue    the values written with write_event_value, oldest first      *)
(*   trace    the effects of the running call outside the manager, in the  *)
(*            order the code performs them                                 *)

Effect(kind, mapping, values, value) ==
    [kind |-> kind, mapping |-> mapping, values |-> values, value |-> value]

\* The saved_prompt_profiles property: every read re-binds
\* _saved_prompt_profiles to the settings entry when there is one.  The
\* object it returns is the one later reads return too, so one call of a
\* method reads the settings once and then works on pm.saved.
saved_prompt_profiles_getter(pm) ==
    [pm EXCEPT !.saved = user_settings_get_entry(
                             pm.settings, SAVED_PROMPTS_SETTINGS, pm.saved)]

prompt_profile_names(pm) ==
    <<unsaved_prompt_profile_name>> \o sorted(keys(pm.saved))

saved_prompt_profile_names(pm) == sorted(keys(pm.saved))

\* save_profiles_to_settings without the write to the settings
save_profiles_to_settings_skipped(pm) == pm

save_profiles_to_settings(pm) ==
    [pm EXCEPT
        !.settings = user_settings_set_entry(@, SAVED_PROMPTS_SETTINGS, pm.saved),
        !.trace = Append(@, Effect("set_entry", pm.saved, <<>>, ""))]

\* update_prompt_profile_dropdown without the write_event_value
update_prompt_profile_dropdown_silent(pm, new_selected_profile) ==
    IF ~pm.dropdown.bound THEN pm
    ELSE [pm EXCEPT
            !.dropdown.value = IF new_selected_profile = Ellipsis
                               THEN pm.dropdown.value
                               ELSE new_selected_profile,
            !.dropdown.values = prompt_profile_names(pm)]

update_prompt_profile_dropdown(pm, new_selected_profile) ==
    IF ~pm.dropdown.bound THEN pm
    ELSE
        LET selected_profile ==
                IF new_selected_profile = Ellipsis THEN pm.dropdown.value
                ELSE new_selected_profile
            updated ==
                [pm EXCEPT
                    !.dropdown.value = selected_profile,
                    !.dropdown.values = prompt_profile_names(pm),
                    !.trace = Append(@, Effect("update", <<>>,
                                  prompt_profile_names(pm), selected_profile))]
        IN  IF new_selected_profile # Ellipsis
            THEN [updated EXCEPT
                    !.queue = Append(@, new_selected_profile),
                    !.trace = Append(@, Effect("write_event_value", <<>>,
                                  <<>>, new_selected_profile))]
            ELSE updated

\* save_profile saving to the settings once the original is deleted and
\* again once the new profile is stored
save_profile_persists_twice(pm, profile_name, profile_prompt, original_profile_name) ==
    LET deleted ==
            IF original_profile_name # None
               /\ HasKey(pm.saved, original_profile_name)
            THEN dict_delitem(pm.saved, original_profile_name)
            ELSE pm.saved
        first == save_profiles_to_settings([pm EXCEPT !.saved = deleted])
        stored == dict_setitem(deleted, profile_name, profile_prompt)
        persisted == save_profiles_to_settings([first EXCEPT !.saved = stored])
    IN  IF persisted.dropdown.bound
        THEN IF original_profile_name # None
                /\ original_profile_name = persisted.dropdown.value
             THEN update_prompt_profile_dropdown(persisted, profile_name)
             ELSE update_prompt_profile_dropdown(persisted, Ellipsis)
        ELSE persisted

\* save_profile selecting the saved profile whatever the dropdown shows
save_profile_always_selects(pm, profile_name, profile_prompt, original_profile_name) ==
    LET deleted ==
            IF original_profile_name # None
               /\ HasKey(pm.saved, original_profile_name)
            THEN dict_delitem(pm.saved, original_profile_name)
            ELSE pm.saved
        stored == dict_setitem(deleted, profile_name, profile_prompt)
        persisted == save_profiles_to_settings([pm EXCEPT !.saved = stored])
    IN  IF persisted.dropdown.bound
        THEN update_prompt_profile_dropdown(persisted, profile_name)
        ELSE persisted

save_profile(pm, profile_name, profile_prompt, original_profile_name) ==
    LET deleted ==
            IF original_profile_name # None
               /\ HasKey(pm.saved, original_profile_name)
            THEN dict_delitem(pm.saved, original_profile_name)
            ELSE pm.saved
        stored == dict_setitem(deleted, profile_name, profile_prompt)
        persisted == save_profiles_to_settings([pm EXCEPT !.saved = stored])
    IN  IF persisted.dropdown.bound
        THEN IF original_profile_name # None
                /\ original_profile_name = persisted.dropdown.value
             THEN update_prompt_profile_dropdown(persisted, profile_name)
             ELSE update_prompt_profile_dropdown(persisted, Ellipsis)
        ELSE persisted

ERR_EMPTY_NAME ==
    "Invalid prompt name: name can't be empty or whitespace only."
ERR_NAME_IN_USE == "Invalid prompt name: name already in use."

Returned(pm, success, error_msg) ==
    [pm |-> pm, raised |-> "", success |-> success, error_msg |-> error_msg]

Raised(pm, exception) ==
    [pm |-> pm, raised |-> exception, success |-> FALSE, error_msg |-> ""]

\* add_prompt_profile without the check for a name in use
add_prompt_profile_overwrites(pm0, profile_name, profile_prompt) ==
    IF strip(profile_name) = "" THEN Returned(pm0, FALSE, ERR_EMPTY_NAME)
    ELSE Returned(save_profile(saved_prompt_profiles_getter(pm0),
                               profile_name, profile_prompt, None), TRUE, "")

add_prompt_profile(pm0, profile_name, profile_prompt) ==
    IF strip(profile_name) = "" THEN Returned(pm0, FALSE, ERR_EMPTY_NAME)
    ELSE
        LET pm == saved_prompt_profiles_getter(pm0)
        IN  IF profile_name \in SeqToSet(prompt_profile_names(pm))
            THEN Returned(pm, FALSE, ERR_NAME_IN_USE)
            ELSE Returned(save_profile(pm, profile_name, profile_prompt, None),
                          TRUE, "")

\* edit_prompt_profile without the check for a name in use
edit_prompt_profile_overwrites(pm0, profile_name, profile_prompt, original_profile_name) ==
    IF strip(profile_name) = "" THEN Returned(pm0, FALSE, ERR_EMPTY_NAME)
    ELSE Returned(save_profile(saved_prompt_profiles_getter(pm0),
                               profile_name, profile_prompt,
                               original_profile_name), TRUE, "")

edit_prompt_profile(pm0, profile_name, profile_prompt, original_profile_name) ==
    LET profile_name_changed == profile_name # original_profile_name
    IN  IF strip(profile_name) = "" THEN Returned(pm0, FALSE, ERR_EMPTY_NAME)
        ELSE
            LET pm == saved_prompt_profiles_getter(pm0)
            IN  IF profile_name \in SeqToSet(prompt_profile_names(pm))
                   /\ profile_name_changed
                THEN Returned(pm, FALSE, ERR_NAME_IN_USE)
                ELSE Returned(save_profile(pm, profile_name, profile_prompt,
                                           original_profile_name), TRUE, "")

\* delete_prompt_profile that returns before it saves to the settings when
\* no dropdown is bound
delete_prompt_profile_needs_dropdown(pm0, profile_name) ==
    LET pm == saved_prompt_profiles_getter(pm0)
    IN  IF ~HasKey(pm.saved, profile_name) THEN Raised(pm, "KeyError")
        ELSE
            LET deleted ==
                    [pm EXCEPT !.saved = dict_delitem(pm.saved, profile_name)]
                persisted == save_profiles_to_settings(deleted)
            IN  IF persisted.dropdown.bound
                THEN IF profile_name = persisted.dropdown.value
                     THEN Returned(update_prompt_profile_dropdown(
                              persisted, unsaved_prompt_profile_name), TRUE, "")
                     ELSE Returned(update_prompt_profile_dropdown(
                              persisted, Ellipsis), TRUE, "")
                ELSE Returned(deleted, TRUE, "")

delete_prompt_profile(pm0, profile_name) ==
    LET pm == saved_prompt_profiles_getter(pm0)
    IN  IF ~HasKey(pm.saved, profile_name) THEN Raised(pm, "KeyError")
        ELSE
            LET persisted == save_profiles_to_settings(
                    [pm EXCEPT !.saved = dict_delitem(pm.saved, profile_name)])
            IN  IF persisted.dropdown.bound
                THEN IF profile_name = persisted.dropdown.value
                     THEN Returned(update_prompt_profile_dropdown(
                              persisted, unsaved_prompt_profile_name), TRUE, "")
                     ELSE Returned(update_prompt_profile_dropdown(
                              persisted, Ellipsis), TRUE, "")
                ELSE Returned(persisted, TRUE, "")

----------------------------------------------------------------------------
(* The handler of the Keys.PROMPT_PROFILE_DROPDOWN event in start_GUI *)

\* the new text of the initial prompt field and the new settings, or the
\* exception the handler raises
prompt_profile_chosen(pm, chosen_prompt_profile) ==
    IF chosen_prompt_profile \in SeqToSet(saved_prompt_profile_names(pm))
    THEN [raised |-> "",
          input |-> dict_getitem(pm.saved, chosen_prompt_profile),
          settings |-> user_settings_set_entry(
              pm.settings, PROMPT_PROFILE_DROPDOWN, chosen_prompt_profile)]
    ELSE IF chosen_prompt_profile = unsaved_prompt_profile_name
    THEN [raised |-> "",
          input |-> "",
          settings |-> user_settings_set_entry(
              pm.settings, PROMPT_PROFILE_DROPDOWN, chosen_prompt_profile)]
    ELSE [raised |-> "NonExistentPromptProfileName",
          input |-> initial_prompt_input,
          settings |-> pm.settings]

----------------------------------------------------------------------------
(* State and actions of the profile store *)

EmptyDict == <<>>
NoSettings == [k \in {} |-> ""]

Item(name, prompt) == [name |-> name, prompt |-> prompt]

\* The settings files the program starts from: none yet, or the one a
\* previous run left (profile "B" saved before "A", "A" selected).
InitialSettings ==
    {NoSettings,
     [k \in {SAVED_PROMPTS_SETTINGS, PROMPT_PROFILE_DROPDOWN} |->
        IF k = SAVED_PROMPTS_SETTINGS
        THEN <<Item("B", "p2"), Item("A", "p1")>>
        ELSE "A"]}

PM == [saved |-> saved_prompt_profiles, settings |-> user_settings,
       dropdown |-> dropdown, queue |-> event_queue, trace |-> <<>>]

\* the state a call starts from
Before == [saved |-> saved_prompt_profiles, settings |-> user_settings,
           dropdown |-> dropdown, queue |-> event_queue]

\* what the last call was, its arguments, how it ended, what it did outside
\* the manager and what it started from
Call(op, args, r, trace) ==
    [op |-> op, args |-> args, raised |-> r.raised, success |-> r.success,
     error_msg |-> r.error_msg, trace |-> trace, before |-> Before]

\* PromptManager.__init__
StoreInit ==
    /\ user_settings \in InitialSettings
    /\ saved_prompt_profiles =
           user_settings_get_entry(user_settings, SAVED_PROMPTS_SETTINGS, EmptyDict)
    /\ dropdown = [bound |-> FALSE, values |-> <<>>, value |-> "",
                   window |-> 0]
    /\ event_queue = <<>>
    /\ initial_prompt_input = ""
    /\ call = [op |-> "init", args |-> <<>>, raised |-> "", success |-> TRUE,
               error_msg |-> "", trace |-> <<>>,
               before |-> [saved |-> saved_prompt_profiles,
                           settings |-> user_settings, dropdown |-> dropdown,
                           queue |-> event_queue]]

\* what a call of a PromptManager method leaves behind
StoreCall(op, args, r) ==
    /\ saved_prompt_profiles' = r.pm.saved
    /\ user_settings' = r.pm.settings
    /\ dropdown' = r.pm.dropdown
    /\ event_queue' = r.pm.queue
    /\ call' = Call(op, args, r, r.pm.trace)
    /\ UNCHANGED <<initial_prompt_input, modal_vars, loop_vars>>

AddPromptProfile ==
    \E profile_name \in NameInputs, profile_prompt \in Prompts :
        /\ Len(event_queue) < MaxQueue
        /\ StoreCall("add", <<profile_name, profile_prompt>>,
                     add_prompt_profile(PM, profile_name, profile_prompt))

EditPromptProfile ==
    \E profile_name \in NameInputs, profile_prompt \in Prompts,
       original_profile_name \in KeyInputs :
        /\ Len(event_queue) < MaxQueue
        /\ StoreCall("edit",
                     <<profile_name, profile_prompt, original_profile_name>>,
                     edit_prompt_profile(PM, profile_name, profile_prompt,
                                         original_profile_name))

DeletePromptProfile ==
    \E profile_name \in NameInputs :
        /\ Len(event_queue) < MaxQueue
        /\ StoreCall("delete", <<profile_name>>, delete_prompt_profile(PM, profile_name))

\* make_tracked_main_window_with_synced_profiles: the main window is made,
\* its dropdown showing the profile names and the profile of the settings,
\* and the manager is given the dropdown.
SetPromptProfileDropdown ==
    /\ ~dropdown.bound
    /\ LET pm == saved_prompt_profiles_getter(PM)
           startup_prompt_profile ==
               user_settings_get_entry(user_settings, PROMPT_PROFILE_DROPDOWN,
                                       unsaved_prompt_profile_name)
       IN  /\ saved_prompt_profiles' = pm.saved
           /\ dropdown' = [bound |-> TRUE,
                           values |-> prompt_profile_names(pm),
                           value |-> startup_prompt_profile,
                           window |-> main_window]
           /\ initial_prompt_input' =
                  dict_get(pm.saved, startup_prompt_profile, "")
           /\ call' = Call("set_dropdown", <<>>, Returned(pm, TRUE, ""), <<>>)
    /\ UNCHANGED <<user_settings, event_queue, modal_vars, loop_vars>>

\* one run of the handler, for the value the event carries
PromptProfileEvent(op, chosen_prompt_profile, new_dropdown, new_queue) ==
    LET pm == saved_prompt_profiles_getter(PM)
        h == prompt_profile_chosen(pm, chosen_prompt_profile)
    IN  /\ saved_prompt_profiles' = pm.saved
        /\ user_settings' = h.settings
        /\ initial_prompt_input' = h.input
        /\ dropdown' = new_dropdown
        /\ event_queue' = new_queue
        /\ call' = Call(op, <<chosen_prompt_profile>>,
                        [raised |-> h.raised, success |-> h.raised = "",
                         error_msg |-> ""], <<>>)
        /\ UNCHANGED <<modal_vars, loop_vars>>

\* the loop reads a value written by write_event_value
DispatchWrittenSelection ==
    /\ event_queue # <<>>
    /\ PromptProfileEvent("written_selection", Head(event_queue), dropdown,
                          Tail(event_queue))

\* the user picks an option of the dropdown; the loop reads the event
UserSelectsProfile ==
    /\ dropdown.bound
    /\ event_queue = <<>>
    /\ \E chosen \in SeqToSet(dropdown.values) :
           PromptProfileEvent("user_selection", chosen,
                              [dropdown EXCEPT !.value = chosen], event_queue)

StoreNext ==
    \/ AddPromptProfile
    \/ EditPromptProfile
    \/ DeletePromptProfile
    \/ SetPromptProfileDropdown
    \/ DispatchWrittenSelection
    \/ UserSelectsProfile

----------------------------------------------------------------------------
(* ModalWindowManager (ext_PySimpleGUI), as start_GUI uses it: windows are *)
(* numbered in the order they are made.                                    *)

Windows == DOMAIN window_closed

Last(s) == s[Len(s)]

\* track_modal_window(win): win becomes the newest candidate for the grab
track_modal_window(stack, win) == Append(stack, win)

\* update() making the oldest tracked open window modal
modal_window_manager_update_oldest(stack, closed) ==
    LET open_stack == SelectSeq(stack, LAMBDA w : ~closed[w])
    IN  <<open_stack,
          IF open_stack = <<>> THEN {} ELSE {Head(open_stack)}>>

\* update(): closed windows are dropped from the tracked ones, the newest
\* tracked open window is made modal and no other window is
\* <<the windows still tracked, the modal windows>>
modal_window_manager_update(stack, closed) ==
    LET open_stack == SelectSeq(stack, LAMBDA w : ~closed[w])
    IN  <<open_stack,
          IF open_stack = <<>> THEN {} ELSE {Last(open_stack)}>>

ModalInit ==
    /\ window_closed = <<>>
    /\ modal_window_stack = <<>>
    /\ modal_windows = {}
    /\ modal_call = [op |-> "init", win |-> 0, dropped |-> {}]

\* a window is made (sg.Window(..., finalize=True))
MakeWindow ==
    /\ Len(window_closed) < MaxWindows
    /\ window_closed' = Append(window_closed, FALSE)
    /\ modal_call' = [op |-> "make", win |-> Len(window_closed) + 1,
                      dropped |-> {}]
    /\ UNCHANGED <<modal_window_stack, modal_windows, store_vars, loop_vars>>

\* modal_window_manager.track_modal_window(win), for a window not tracked yet
TrackModalWindow ==
    \E win \in Windows :
        /\ win \notin SeqToSet(modal_window_stack)
        /\ modal_window_stack' = track_modal_window(modal_window_stack, win)
        /\ modal_call' = [op |-> "track", win |-> win, dropped |-> {}]
        /\ UNCHANGED <<window_closed, modal_windows, store_vars, loop_vars>>

\* window.close(): a closed window holds no grab; closing again changes nothing
CloseWindow ==
    \E win \in Windows :
        /\ window_closed' = [window_closed EXCEPT ![win] = TRUE]
        /\ modal_windows' = modal_windows \ {win}
        /\ modal_call' = [op |-> "close", win |-> win, dropped |-> {}]
        /\ UNCHANGED <<modal_window_stack, store_vars, loop_vars>>

\* modal_window_manager.update(), the last statement of a loop iteration
UpdateModalWindows ==
    LET u == modal_window_manager_update(modal_window_stack, window_closed)
    IN  /\ modal_window_stack' = u[1]
        /\ modal_windows' = u[2]
        /\ modal_call' = [op |-> "update", win |-> 0,
                          dropped |-> SeqToSet(modal_window_stack)
                                        \ SeqToSet(u[1])]
        /\ UNCHANGED <<window_closed, store_vars, loop_vars>>

ModalNext ==
    \/ MakeWindow
    \/ TrackModalWindow
    \/ CloseWindow
    \/ UpdateModalWindows

----------------------------------------------------------------------------
(* The dispatch loop of start_GUI.  One iteration (read_all_windows, the   *)
(* handler of the event, the statements after the handlers) is one step;   *)
(* handlers and methods are operators on the record s of what the loop     *)
(* works on:                                                               *)
(*   the variables of the windows, the tracker, the meter, the transcriber *)
(*   and the workers, under their names                                    *)
(*   popups, done_calls, stop_calls, refreshed, post_dispatch: what the    *)
(*   running iteration did, in order                                       *)

\* the events of the loop
WIN_CLOSED == "WIN_CLOSED"
TIMEOUT_EVENT == "__TIMEOUT__"
START_PROMPT_MANAGER == "-START-PROMPT-MANAGER-"
OPEN_ADD_PROMPT_WINDOW == "-OPEN-ADD-PROMPT-WINDOW-"
OPEN_EDIT_PROMPT_WINDOW == "-OPEN-EDIT-PROMPT-WINDOW-"
ADD_PROMPT_PROFILE == "-ADD-PROMPT-"
EDIT_PROMPT_PROFILE == "-EDIT-PROMPT-"
DELETE_PROMPT == "-DELETE-PROMPT-"
INITIAL_PROMPT_INPUT == "-INITIAL-PROMPT-"
APPLY_GLOBAL_SCALING == "-SAVE-SCALING-"
SCALING_INPUT_SETTING == "-GLOBAL-SCALING-"
START == "-START-TRANSCRIPTIONS-"
TRANSCRIBE_PROGRESS == "TRANSCRIBE_PROGRESS"
TRANSCRIBE_SUCCESS == "TRANSCRIBE_SUCCESS"
TRANSCRIBE_ERROR == "TRANSCRIBE_ERROR"
TRANSCRIBE_STOPPED == "TRANSCRIBE_STOPPED"
TRANSCRIBE_DONE_NO_SUCCESS_EVENTS == {TRANSCRIBE_ERROR, TRANSCRIBE_STOPPED}
TerminalEvents == {TRANSCRIBE_SUCCESS} \cup TRANSCRIBE_DONE_NO_SUCCESS_EVENTS

\* GUI_Settings.MIN_SCALING = 0.5 and MAX_SCALING = 3, in tenths
MIN_SCALING == 5
MAX_SCALING == 30

\* how many input files the user may have selected
FileCounts == {0, 1, 2}

\* what the user may have typed in the scaling field
ScalingInputs == {"abc", "0.4", "1.5"}

\* Decimal(text) in tenths, for the texts that are numbers
Decimal(text) == IF text = "0.4" THEN 4 ELSE 15

\* Decimal(text) raises decimal.InvalidOperation
InvalidOperation(text) == text \notin {"0.4", "1.5"}

\* a window with no metadata and no table, where the window manager puts it
PlainWindow == [metadata |-> "", table |-> <<>>, location |-> "center"]

\* what an event carries when it carries nothing the model looks at: no
\* table row selected, no profile name, no prompt, no scaling text, no
\* input files and no output folder
NoInput ==
    [row |-> 0, name |-> "", prompt |-> "", scaling |-> "", files |-> 0,
     output_dir |-> ""]

LS == [window_closed |-> window_closed, window_kind |-> window_kind,
       window_data |-> window_data,
       modal_window_stack |-> modal_window_stack,
       modal_windows |-> modal_windows,
       window_tracker_windows |-> window_tracker_windows,
       main_window |-> main_window,
       prompt_manager_window |-> prompt_manager_window,
       add_new_prompt_window |-> add_new_prompt_window,
       active_meter |-> active_meter, meter_cancelled |-> meter_cancelled,
       transcriber |-> transcriber, workers |-> workers,
       popups |-> <<>>, done_calls |-> <<>>, stop_calls |-> <<>>,
       refreshed |-> FALSE, post_dispatch |-> FALSE, raised |-> "",
       input |-> NoInput, prompt_manager |-> PM, call |-> call,
       initial_prompt_input |-> initial_prompt_input]

\* the window the next sg.Window(...) makes
new_window(s) == Len(s.window_closed) + 1

make_window(s, kind) ==
    [s EXCEPT !.window_closed = Append(@, FALSE),
              !.window_kind = Append(@, kind),
              !.window_data = Append(@, PlainWindow)]

\* window.close()
close_window(s, win) ==
    [s EXCEPT !.window_closed[win] = TRUE, !.modal_windows = @ \ {win}]

\* window_tracker.track_window(win)
track_window(s, win) ==
    [s EXCEPT !.window_tracker_windows = @ \cup {win}]

\* modal_window_manager.track_modal_window(win) in the loop: update() looks
\* at the newest registration of a window only, so only that one is kept
track_modal(s, win) ==
    [s EXCEPT !.modal_window_stack =
                  track_modal_window(SelectSeq(@, LAMBDA w : w # win), win)]

\* popup_tracked(..., window_tracker=window_tracker, non_blocking=True)
\* followed by modal_window_manager.track_modal_window(popup_window)
popup_tracked_modal(s, title) ==
    LET popup_window == new_window(s)
    IN  track_modal([track_window(make_window(s, "popup"), popup_window)
                        EXCEPT !.popups = Append(@, title)],
                    popup_window)

\* the clock of the transcription timer: it advances as the workers work
RECURSIVE files_completed(_)
files_completed(ws) ==
    IF ws = <<>> THEN 0 ELSE Head(ws).k + files_completed(Tail(ws))

is_transcribing(s) == s.transcriber.state \in {"Running", "Stopping"}

is_stopping(s) == s.transcriber.state = "Stopping"

\* a worker that takes the initial prompt from the field of the main
\* window whenever it begins a file
worker_reads_field(worker, field) ==
    [worker.parameters EXCEPT !.initial_prompt = field]

\* what the worker of a job works with on a file: the parameters that
\* start() was given; field is the text of the initial prompt field at
\* that moment
worker_reads(worker, field) == worker.parameters

\* transcriber.start(...) for n files: the counts are set, a worker thread
\* is spawned with the parameters of the call and the job is Running;
\* start itself does not look at the state it finds
transcriber_start(s, n, initial_prompt) ==
    [s EXCEPT !.transcriber = [state |-> "Running",
                               transcribe_thread |-> Len(s.workers) + 1,
                               num_tasks |-> n, num_tasks_done |-> 0,
                               started_at |-> files_completed(s.workers)],
              !.workers = Append(@, [n |-> n, k |-> 0, stop |-> FALSE,
                                     ended |-> FALSE,
                                     parameters |->
                                         [files |-> n,
                                          initial_prompt |-> initial_prompt],
                                     read |-> <<>>])]

\* transcriber.stop() that signals the worker whatever the state is
transcriber_stop_always(s) ==
    LET thread == s.transcriber.transcribe_thread
    IN  IF thread # 0
        THEN [s EXCEPT !.transcriber.state = "Stopping",
                       !.workers[thread].stop = TRUE,
                       !.stop_calls = Append(@, "signalled")]
        ELSE [s EXCEPT !.stop_calls = Append(@, "no-op")]

\* transcriber.stop(): a Running job whose worker has not finished is
\* signalled to stop after its current file and is Stopping; otherwise
\* nothing happens
transcriber_stop(s) ==
    LET thread == s.transcriber.transcribe_thread
    IN  IF /\ s.transcriber.state = "Running"
           /\ thread # 0
           /\ ~s.workers[thread].ended
        THEN [s EXCEPT !.transcriber.state = "Stopping",
                       !.workers[thread].stop = TRUE,
                       !.stop_calls = Append(@, "signalled")]
        ELSE [s EXCEPT !.stop_calls = Append(@, "no-op")]

\* transcriber.done(success): the worker handle is released, the job is
\* Done and the time since start() is returned; a call with no job to
\* finish does nothing and returns no time
transcriber_done(s, success) ==
    IF is_transcribing(s)
    THEN [s EXCEPT !.transcriber.state = "Done",
                   !.transcriber.transcribe_thread = 0,
                   !.done_calls =
                       Append(@, [success |-> success, effective |-> TRUE,
                                  elapsed |-> files_completed(s.workers)
                                                  - s.transcriber.started_at])]
    ELSE [s EXCEPT !.done_calls =
                       Append(@, [success |-> success, effective |-> FALSE,
                                  elapsed |-> 0])]

\* sg.one_line_progress_meter_cancel(key=Keys.PROGRESS)
one_line_progress_meter_cancel(s) ==
    IF s.active_meter = 0 THEN s
    ELSE [close_window(s, s.active_meter) EXCEPT !.active_meter = 0,
                                                 !.meter_cancelled = FALSE]

\* lines 519-557, run while a job is transcribing and not stopping:
\* sg.one_line_progress_meter makes the meter when there is none, shows
\* num_tasks_done of num_tasks, and closes the meter when the user has
\* cancelled it or the count has reached the maximum; a meter that is still
\* active is tracked as a modal window, a cancelled one stops the job
refresh_progress_meter(s) ==
    LET reached_max == s.transcriber.num_tasks_done >= s.transcriber.num_tasks
        shown == [s EXCEPT !.refreshed = TRUE]
    IN  IF s.active_meter = 0
        THEN IF reached_max THEN shown
             ELSE track_modal([make_window(shown, "meter")
                                  EXCEPT !.active_meter = new_window(s)],
                              new_window(s))
        ELSE IF s.meter_cancelled
             THEN transcriber_stop(one_line_progress_meter_cancel(shown))
             ELSE IF reached_max THEN one_line_progress_meter_cancel(shown)
             ELSE track_modal(shown, s.active_meter)

\* lines 511-560 with the meter refreshed whenever a job is transcribing
post_dispatch_refreshes_stopping(s, event) ==
    LET finalized == IF event \in TRANSCRIBE_DONE_NO_SUCCESS_EVENTS
                     THEN transcriber_done(s, FALSE) ELSE s
        metered == IF is_transcribing(finalized)
                   THEN refresh_progress_meter(finalized) ELSE finalized
        u == modal_window_manager_update(metered.modal_window_stack,
                                         metered.window_closed)
    IN  [metered EXCEPT !.modal_window_stack = u[1],
                        !.modal_windows = u[2], !.post_dispatch = TRUE]

\* lines 511-560 with done(success=False) called for Success too
post_dispatch_finalizes_success(s, event) ==
    LET finalized == IF event \in TerminalEvents
                     THEN transcriber_done(s, FALSE) ELSE s
        metered == IF is_transcribing(finalized) /\ ~is_stopping(finalized)
                   THEN refresh_progress_meter(finalized) ELSE finalized
        u == modal_window_manager_update(metered.modal_window_stack,
                                         metered.window_closed)
    IN  [metered EXCEPT !.modal_window_stack = u[1],
                        !.modal_windows = u[2], !.post_dispatch = TRUE]

\* lines 511-560, the statements after the handlers: a job that reported
\* Error or Stopped is finalized, the meter of a job that is transcribing
\* and not stopping is refreshed, the modal window manager is updated
post_dispatch(s, event) ==
    LET finalized == IF event \in TRANSCRIBE_DONE_NO_SUCCESS_EVENTS
                     THEN transcriber_done(s, FALSE) ELSE s
        metered == IF is_transcribing(finalized) /\ ~is_stopping(finalized)
                   THEN refresh_progress_meter(finalized) ELSE finalized
        u == modal_window_manager_update(metered.modal_window_stack,
                                         metered.window_closed)
    IN  [metered EXCEPT !.modal_window_stack = u[1],
                        !.modal_windows = u[2], !.post_dispatch = TRUE]

----------------------------------------------------------------------------
(* The handlers of start_GUI *)

\* lines 96-102: the main window is closed; the loop is left by break
main_window_closed(s) ==
    IF s.transcriber.transcribe_thread # 0 THEN transcriber_stop(s) ELSE s

\* lines 103-108: another window is closed
other_window_closed(s, window) ==
    [close_window(s, window)
        EXCEPT !.add_new_prompt_window =
                   IF window = s.add_new_prompt_window THEN 0 ELSE @,
               !.prompt_manager_window =
                   IF /\ window # s.add_new_prompt_window
                      /\ window = s.prompt_manager_window THEN 0 ELSE @]

\* PromptManager.saved_prompt_profiles_list: the items sorted on the name
saved_prompt_profiles_list(pm) ==
    LET names == sorted(keys(pm.saved))
    IN  [i \in 1..Len(names) |->
            Item(names[i], dict_getitem(pm.saved, names[i]))]

\* popup_prompt_manager(prompt_manager, location): a window whose table
\* shows saved_prompt_profiles_list; with no location given the window
\* manager centers it
popup_prompt_manager(s, location) ==
    LET pm == saved_prompt_profiles_getter(s.prompt_manager)
    IN  [make_window(s, "prompt_manager")
            EXCEPT !.window_data[new_window(s)] =
                       [metadata |-> "",
                        table |-> saved_prompt_profiles_list(pm),
                        location |-> IF location = None THEN "center"
                                     ELSE location]]

\* window.current_location(more_accurate=True): where the window is, or
\* None when the position cannot be obtained
current_location(s, window, obtained) ==
    IF obtained /\ ~s.window_closed[window]
    THEN s.window_data[window].location ELSE None

\* a reload that reports the missing location and builds the new window
\* all the same
reload_prompt_manager_window_builds_anyway(s, obtained) ==
    IF s.prompt_manager_window = 0 THEN s
    ELSE
        LET old_prompt_manager_window == s.prompt_manager_window
            pos == current_location(s, old_prompt_manager_window,
                                    obtained)
            new_prompt_manager_window == new_window(s)
            reported == IF pos = None
                        THEN [s EXCEPT !.popups = Append(@, "PopupError")]
                        ELSE s
            replaced == track_window(
                close_window(popup_prompt_manager(reported, pos),
                             old_prompt_manager_window),
                new_prompt_manager_window)
            u == modal_window_manager_update(replaced.modal_window_stack,
                                             replaced.window_closed)
        IN  [track_modal([replaced EXCEPT !.modal_window_stack = u[1],
                                          !.modal_windows = u[2]],
                         old_prompt_manager_window)
                EXCEPT !.prompt_manager_window = new_prompt_manager_window]

\* lines 1250-1310, with start_GUI's assignment of the result to
\* prompt_manager_window: with no window to reload nothing is done; when
\* the position of the window cannot be obtained sg.PopupError (a blocking
\* popup) reports it and None is returned; otherwise a new window is made at
\* that position, the old one is closed, the new one is tracked by the
\* window tracker, the modal window manager is updated and then given
\* prompt_manager_window, the window just closed
reload_prompt_manager_window(s, obtained) ==
    IF s.prompt_manager_window = 0 THEN s
    ELSE
        LET old_prompt_manager_window == s.prompt_manager_window
            pos == current_location(s, old_prompt_manager_window,
                                    obtained)
            new_prompt_manager_window == new_window(s)
            replaced == track_window(
                close_window(popup_prompt_manager(s, pos),
                             old_prompt_manager_window),
                new_prompt_manager_window)
            u == modal_window_manager_update(replaced.modal_window_stack,
                                             replaced.window_closed)
        IN  IF pos = None
            THEN [s EXCEPT !.popups = Append(@, "PopupError"),
                           !.prompt_manager_window = 0]
            ELSE [track_modal([replaced EXCEPT !.modal_window_stack = u[1],
                                               !.modal_windows = u[2]],
                              old_prompt_manager_window)
                    EXCEPT !.prompt_manager_window =
                               new_prompt_manager_window]

\* lines 146-150
start_prompt_manager(s) ==
    LET window == new_window(s)
    IN  track_modal([track_window(popup_prompt_manager(s, None), window)
                        EXCEPT !.prompt_manager_window = window],
                    window)

\* lines 152-158
open_add_prompt_window(s) ==
    LET window == new_window(s)
    IN  track_modal([make_window(s, "add")
                        EXCEPT !.add_new_prompt_window = window],
                    window)

\* lines 160-192, for the table row the user has selected (0 for none):
\* the edit window keeps the name of the profile as the metadata of its
\* name input
open_edit_prompt_window(s, row) ==
    LET profiles == saved_prompt_profiles_list(
                        saved_prompt_profiles_getter(s.prompt_manager))
    IN  IF row = 0 THEN popup_tracked_modal(s, "Invalid selection")
        ELSE IF row > Len(profiles) THEN [s EXCEPT !.raised = "IndexError"]
        ELSE track_modal(
                 [make_window(s, "edit")
                     EXCEPT !.window_data[new_window(s)].metadata =
                                profiles[row].name],
                 new_window(s))

\* the handler of lines 194-242 closing the add or edit window whether the
\* profile is saved or not
add_edit_prompt_profile_closes_window(s, event, window, new_profile_name, new_profile_prompt, obtained) ==
    LET original_profile_name == s.window_data[window].metadata
        r == IF event = ADD_PROMPT_PROFILE
             THEN add_prompt_profile(s.prompt_manager, new_profile_name,
                                     new_profile_prompt)
             ELSE edit_prompt_profile(s.prompt_manager, new_profile_name,
                                      new_profile_prompt,
                                      original_profile_name)
        called == [close_window(s, window) EXCEPT
                      !.add_new_prompt_window = 0,
                      !.prompt_manager = r.pm,
                      !.call = Call(IF event = ADD_PROMPT_PROFILE THEN "add"
                                    ELSE "edit",
                                    IF event = ADD_PROMPT_PROFILE
                                    THEN <<new_profile_name,
                                           new_profile_prompt>>
                                    ELSE <<new_profile_name,
                                           new_profile_prompt,
                                           original_profile_name>>,
                                    r, r.pm.trace)]
    IN  IF r.success
        THEN reload_prompt_manager_window(called, obtained)
        ELSE popup_tracked_modal(called, "Invalid prompt name")

\* lines 194-242: the profile of the add or edit window is saved; when it
\* is, the window is closed and the prompt manager window reloaded,
\* otherwise a popup shows the error message
add_edit_prompt_profile(s, event, window, new_profile_name, new_profile_prompt, obtained) ==
    LET original_profile_name == s.window_data[window].metadata
        r == IF event = ADD_PROMPT_PROFILE
             THEN add_prompt_profile(s.prompt_manager, new_profile_name,
                                     new_profile_prompt)
             ELSE edit_prompt_profile(s.prompt_manager, new_profile_name,
                                      new_profile_prompt,
                                      original_profile_name)
        called == [s EXCEPT
                      !.prompt_manager = r.pm,
                      !.call = Call(IF event = ADD_PROMPT_PROFILE THEN "add"
                                    ELSE "edit",
                                    IF event = ADD_PROMPT_PROFILE
                                    THEN <<new_profile_name,
                                           new_profile_prompt>>
                                    ELSE <<new_profile_name,
                                           new_profile_prompt,
                                           original_profile_name>>,
                                    r, r.pm.trace)]
    IN  IF r.success
        THEN reload_prompt_manager_window(
                 [close_window(called, window)
                     EXCEPT !.add_new_prompt_window = 0],
                 obtained)
        ELSE popup_tracked_modal(called, "Invalid prompt name")

\* lines 244-275, for the table row the user has selected (0 for none)
delete_prompt(s, row, obtained) ==
    LET names_saved ==
            saved_prompt_profile_names(
                saved_prompt_profiles_getter(s.prompt_manager))
    IN  IF row = 0 THEN popup_tracked_modal(s, "Invalid selection")
        ELSE IF row > Len(names_saved)
        THEN [s EXCEPT !.raised = "IndexError"]
        ELSE
            LET prompt_profile_name_to_delete == names_saved[row]
                r == delete_prompt_profile(s.prompt_manager,
                                           prompt_profile_name_to_delete)
            IN  reload_prompt_manager_window(
                    [s EXCEPT
                        !.prompt_manager = r.pm,
                        !.call = Call("delete",
                                      <<prompt_profile_name_to_delete>>, r,
                                      r.pm.trace)],
                    obtained)

\* lines 277-281: the user typed in the initial prompt field; the dropdown
\* shows the unsaved profile
initial_prompt_edited(s, text) ==
    [s EXCEPT !.initial_prompt_input = text,
              !.prompt_manager.dropdown.value = unsaved_prompt_profile_name]

\* the handler of lines 283-314 without the write of the choice to the
\* settings
prompt_profile_dropdown_changed_unsaved(s, chosen_prompt_profile) ==
    LET pm == saved_prompt_profiles_getter(s.prompt_manager)
        h == prompt_profile_chosen(pm, chosen_prompt_profile)
    IN  IF h.raised # "" THEN [s EXCEPT !.raised = h.raised]
        ELSE [s EXCEPT !.prompt_manager = pm,
                       !.initial_prompt_input = h.input]

\* lines 283-314: the prompt of the chosen profile is put in the initial
\* prompt field and the choice is saved to the settings
prompt_profile_dropdown_changed(s, chosen_prompt_profile) ==
    LET pm == saved_prompt_profiles_getter(s.prompt_manager)
        h == prompt_profile_chosen(pm, chosen_prompt_profile)
    IN  IF h.raised # "" THEN [s EXCEPT !.raised = h.raised]
        ELSE [s EXCEPT !.prompt_manager = [pm EXCEPT !.settings = h.settings],
                       !.initial_prompt_input = h.input]

\* lines 327-363: the input is no number or out of range
scaling_invalid(text) ==
    \/ InvalidOperation(text)
    \/ ~(MIN_SCALING <= Decimal(text) /\ Decimal(text) <= MAX_SCALING)

\* lines 365-378 with the new main window tracked as a modal window too
remake_main_window_modal(s) ==
    LET tracked == s.window_tracker_windows
        all_closed ==
            [s EXCEPT !.window_closed =
                          [w \in DOMAIN @ |-> @[w] \/ w \in tracked],
                      !.modal_windows = @ \ tracked,
                      !.window_tracker_windows = {}]
        window == new_window(s)
    IN  track_modal([track_window(make_window(all_closed, "main"), window)
                        EXCEPT !.main_window = window],
                    window)

\* lines 365-378 without the del of window_tracker.windows and with the
\* loop's main_window left as it was
remake_main_window_keeps_tracker(s) ==
    LET tracked == s.window_tracker_windows
        all_closed ==
            [s EXCEPT !.window_closed =
                          [w \in DOMAIN @ |-> @[w] \/ w \in tracked],
                      !.modal_windows = @ \ tracked]
    IN  track_window(make_window(all_closed, "main"), new_window(s))

\* lines 365-378: every tracked window is closed, the tracker is emptied
\* and a new main window is made and tracked
remake_main_window(s) ==
    LET tracked == s.window_tracker_windows
        all_closed ==
            [s EXCEPT !.window_closed =
                          [w \in DOMAIN @ |-> @[w] \/ w \in tracked],
                      !.modal_windows = @ \ tracked,
                      !.window_tracker_windows = {}]
        window == new_window(s)
    IN  [track_window(make_window(all_closed, "main"), window)
            EXCEPT !.main_window = window]

\* a Start handler that asks for input files only
start_transcription_any_folder(s, n, output_dir) ==
    IF n > 0
    THEN transcriber_start(s, n, s.initial_prompt_input)
    ELSE popup_tracked_modal(s, "Missing selections")

\* lines 389-454, for n input files and the text of the output folder
start_transcription(s, n, output_dir) ==
    IF n > 0 /\ strip(output_dir) # ""
    THEN transcriber_start(s, n, s.initial_prompt_input)
    ELSE popup_tracked_modal(s, "Missing selections")

\* a Progress handler that counts the file twice
transcribe_progress_twice(s) ==
    [s EXCEPT !.transcriber.num_tasks_done = @ + 2]

\* lines 456-457
transcribe_progress(s) ==
    [s EXCEPT !.transcriber.num_tasks_done = @ + 1]

\* lines 459-482
transcribe_success(s) ==
    popup_tracked_modal(transcriber_done(s, TRUE), "Complete")

\* an Error handler that leaves the progress meter open
transcribe_error_keeps_meter(s) == popup_tracked_modal(s, "ERROR")

\* lines 484-498
transcribe_error(s) ==
    popup_tracked_modal(one_line_progress_meter_cancel(s), "ERROR")

\* a Stopped handler that reports the stop as an error
transcribe_stopped_as_error(s) == popup_tracked_modal(s, "ERROR")

\* lines 500-501
transcribe_stopped(s) == s

----------------------------------------------------------------------------
(* State and actions of the dispatch loop *)

IdleTranscriber ==
    [state |-> "Idle", transcribe_thread |-> 0, num_tasks |-> 0,
     num_tasks_done |-> 0, started_at |-> 0]

\* the jobs whose worker has been told to stop
Signalled(ws) == {j \in DOMAIN ws : ws[j].stop}

\* the jobs whose worker has ended
Ended(ws) == {j \in DOMAIN ws : ws[j].ended}

\* start_GUI before make_tracked_main_window_with_synced_profiles
LoopInit ==
    /\ pc = "start"
    /\ window_kind = <<>>
    /\ window_data = <<>>
    /\ window_tracker_windows = {}
    /\ main_window = 0
    /\ prompt_manager_window = 0
    /\ add_new_prompt_window = 0
    /\ active_meter = 0
    /\ meter_cancelled = FALSE
    /\ transcriber = IdleTranscriber
    /\ workers = <<>>
    /\ thread_queue = <<>>
    /\ job_log = <<>>
    /\ last = [event |-> "", window |-> 0, job |-> 0, post_dispatch |-> FALSE,
               done_calls |-> <<>>, stop_calls |-> <<>>, popups |-> <<>>,
               refreshed |-> FALSE, raised |-> "", input |-> NoInput,
               made |-> {}, closed |-> {},
               before |-> [transcriber |-> IdleTranscriber, jobs |-> 0,
                           signalled |-> {},
                           ended |-> {}, active_meter |-> 0,
                           meter_cancelled |-> FALSE,
                           prompt_manager_window |-> 0,
                           windows |-> [stack |-> <<>>, modal |-> {},
                                        tracked |-> {},
                                        add_new_prompt_window |-> 0],
                           store |-> [saved |-> saved_prompt_profiles,
                                      settings |-> user_settings,
                                      dropdown |-> dropdown,
                                      queue |-> event_queue,
                                      input |-> initial_prompt_input]]]

\* a notification of a worker
Notification(job, kind, file) == [job |-> job, kind |-> kind, file |-> file]

\* what an iteration that read `event` from `window` leaves behind; job and
\* file say which notification the event was, 0 when it was none
Iteration(event, window, job, file, s, next_pc) ==
    /\ Len(s.window_closed) <= IF s.workers = <<>> THEN MaxIdleWindows
                                ELSE MaxWindows
    /\ pc' = next_pc
    /\ window_closed' = s.window_closed
    /\ window_kind' = s.window_kind
    /\ window_data' = s.window_data
    /\ modal_window_stack' = s.modal_window_stack
    /\ modal_windows' = s.modal_windows
    /\ window_tracker_windows' = s.window_tracker_windows
    /\ main_window' = s.main_window
    /\ prompt_manager_window' = s.prompt_manager_window
    /\ add_new_prompt_window' = s.add_new_prompt_window
    /\ active_meter' = s.active_meter
    /\ meter_cancelled' = s.meter_cancelled
    /\ transcriber' = s.transcriber
    /\ workers' = s.workers
    /\ job_log' =
           LET logs == IF Len(s.workers) > Len(job_log)
                       THEN Append(job_log, <<>>) ELSE job_log
           IN  IF job = 0 THEN logs
               ELSE [logs EXCEPT ![job] =
                        Append(@, [kind |-> event, file |-> file,
                                   current |->
                                       transcriber.transcribe_thread,
                                   done_calls |-> s.done_calls])]
    /\ last' = [event |-> event, window |-> window, job |-> job,
                post_dispatch |-> s.post_dispatch,
                done_calls |-> s.done_calls, stop_calls |-> s.stop_calls,
                popups |-> s.popups, refreshed |-> s.refreshed,
                raised |-> s.raised, input |-> s.input,
                made |-> DOMAIN s.window_closed \ DOMAIN window_closed,
                closed |-> {w \in DOMAIN window_closed :
                               ~window_closed[w] /\ s.window_closed[w]},
                before |-> [transcriber |-> transcriber,
                            jobs |-> Len(workers),
                            signalled |-> Signalled(workers),
                            ended |-> Ended(workers),
                            active_meter |-> active_meter,
                            meter_cancelled |-> meter_cancelled,
                            prompt_manager_window |->
                                prompt_manager_window,
                            windows |->
                                [stack |-> modal_window_stack,
                                 modal |-> modal_windows,
                                 tracked |-> window_tracker_windows,
                                 add_new_prompt_window |->
                                     add_new_prompt_window],
                            store |-> [saved |-> saved_prompt_profiles,
                                       settings |-> user_settings,
                                       dropdown |-> dropdown,
                                       queue |-> event_queue,
                                       input |-> initial_prompt_input]]]
    /\ UNCHANGED modal_call

\* the user can act on a window that is open while no other window holds
\* the modal grab
Interactive(window) ==
    /\ window \in DOMAIN window_closed
    /\ ~window_closed[window]
    /\ modal_windows \subseteq {window}

\* an exception raised by a handler leaves start_GUI; otherwise the
\* statements after the handlers run
iteration_end(s, event) == IF s.raised # "" THEN s ELSE post_dispatch(s, event)

pc_after(s) == IF s.raised # "" THEN "crashed" ELSE "loop"

\* what an iteration leaves of the profile store, the dropdown and the
\* initial prompt field
StoreOf(s) ==
    /\ saved_prompt_profiles' = s.prompt_manager.saved
    /\ user_settings' = s.prompt_manager.settings
    /\ dropdown' = s.prompt_manager.dropdown
    /\ event_queue' = s.prompt_manager.queue
    /\ initial_prompt_input' = s.initial_prompt_input
    /\ call' = s.call

\* make_tracked_main_window_with_synced_profiles(...): what it does to the
\* profile store and the dropdown of the new main window
sync_profiles ==
    LET pm == saved_prompt_profiles_getter(PM)
        startup_prompt_profile ==
            user_settings_get_entry(user_settings, PROMPT_PROFILE_DROPDOWN,
                                    unsaved_prompt_profile_name)
    IN  /\ saved_prompt_profiles' = pm.saved
        /\ dropdown' = [bound |-> TRUE,
                        values |-> prompt_profile_names(pm),
                        value |-> startup_prompt_profile,
                        window |-> main_window']
        /\ initial_prompt_input' =
               dict_get(pm.saved, startup_prompt_profile, "")
        /\ call' = Call("set_dropdown", <<>>, Returned(pm, TRUE, ""), <<>>)

\* lines 86-90: the main window is made before the loop is entered
MakeMainWindow ==
    /\ pc = "start"
    /\ Iteration("", 0, 0, 0,
                 [track_window(make_window(LS, "main"), new_window(LS))
                     EXCEPT !.main_window = new_window(LS)],
                 "loop")
    /\ sync_profiles
    /\ UNCHANGED <<user_settings, event_queue, thread_queue>>

\* the user closes the main window: lines 96-102, the break that leaves
\* the loop and main_window.close() of line 563
CloseMainWindow ==
    /\ pc = "loop"
    /\ ~window_closed[main_window]
    /\ Iteration(WIN_CLOSED, main_window, 0, 0,
                 close_window(main_window_closed(LS), main_window), "closed")
    /\ UNCHANGED <<store_vars, thread_queue>>

\* the user closes a window other than the main one (the meter has its own
\* Cancel, read by one_line_progress_meter)
CloseOtherWindow ==
    \E window \in DOMAIN window_closed :
        /\ pc = "loop"
        /\ window # main_window
        /\ window_kind[window] # "meter"
        /\ Interactive(window)
        /\ Iteration(WIN_CLOSED, window, 0, 0,
                     post_dispatch(other_window_closed(LS, window),
                                   WIN_CLOSED),
                     "loop")
        /\ UNCHANGED <<store_vars, thread_queue>>

StartPromptManager ==
    /\ pc = "loop"
    /\ Interactive(main_window)
    /\ Iteration(START_PROMPT_MANAGER, main_window, 0, 0,
                 post_dispatch(start_prompt_manager(LS),
                               START_PROMPT_MANAGER),
                 "loop")
    /\ UNCHANGED <<store_vars, thread_queue>>

OpenAddPromptWindow ==
    \E window \in DOMAIN window_closed :
        /\ pc = "loop"
        /\ window_kind[window] = "prompt_manager"
        /\ Interactive(window)
        /\ Iteration(OPEN_ADD_PROMPT_WINDOW, window, 0, 0,
                     post_dispatch(open_add_prompt_window(LS),
                                   OPEN_ADD_PROMPT_WINDOW),
                     "loop")
        /\ UNCHANGED <<store_vars, thread_queue>>

\* the user has selected a row of the table the window shows, or none
OpenEditPromptWindow ==
    \E window \in DOMAIN window_closed :
        \E row \in 0..Len(window_data[window].table) :
            LET s == open_edit_prompt_window(
                         [LS EXCEPT !.input.row = row], row)
            IN  /\ pc = "loop"
                /\ window_kind[window] = "prompt_manager"
                /\ Interactive(window)
                /\ Iteration(OPEN_EDIT_PROMPT_WINDOW, window, 0, 0,
                             iteration_end(s, OPEN_EDIT_PROMPT_WINDOW), pc_after(s))
                /\ UNCHANGED <<store_vars, thread_queue>>

\* lines 327-363 for an input that is refused: the popup, then continue
ApplyInvalidScaling ==
    \E text \in ScalingInputs :
        /\ pc = "loop"
        /\ Interactive(main_window)
        /\ scaling_invalid(text)
        /\ Iteration(APPLY_GLOBAL_SCALING, main_window, 0, 0,
                     popup_tracked_modal([LS EXCEPT !.input.scaling = text],
                                         "Invalid scaling factor"),
                     "loop")
        /\ UNCHANGED <<store_vars, thread_queue>>

\* lines 327-378 for an input that is accepted
ApplyGlobalScaling ==
    \E text \in ScalingInputs :
        /\ pc = "loop"
        /\ Interactive(main_window)
        /\ ~scaling_invalid(text)
        /\ Iteration(APPLY_GLOBAL_SCALING, main_window, 0, 0,
                     post_dispatch(
                         remake_main_window(
                             [LS EXCEPT !.input.scaling = text]),
                         APPLY_GLOBAL_SCALING),
                     "loop")
        /\ user_settings' =
               user_settings_set_entry(user_settings, SCALING_INPUT_SETTING,
                                       text)
        /\ sync_profiles
        /\ UNCHANGED <<event_queue, thread_queue>>

StartTranscription ==
    \E n \in FileCounts, output_dir \in {" ", "out"} :
        /\ pc = "loop"
        /\ Interactive(main_window)
        /\ Len(workers) < MaxJobs
        /\ Iteration(START, main_window, 0, 0,
                     post_dispatch(
                         start_transcription(
                             [LS EXCEPT !.input.files = n,
                                        !.input.output_dir = output_dir],
                             n, output_dir),
                         START),
                     "loop")
        /\ UNCHANGED <<store_vars, thread_queue>>

\* read_all_windows times out: no handler runs
Timeout ==
    /\ pc = "loop"
    /\ Iteration(TIMEOUT_EVENT, 0, 0, 0, post_dispatch(LS, TIMEOUT_EVENT),
                 "loop")
    /\ UNCHANGED <<store_vars, thread_queue>>

\* a loop that reads the newest notification of the workers first
DispatchNewestNotification(kind, handled) ==
    /\ pc = "loop"
    /\ thread_queue # <<>>
    /\ Last(thread_queue).kind = kind
    /\ Iteration(kind, 0, Last(thread_queue).job, Last(thread_queue).file,
                 post_dispatch(handled, kind), "loop")
    /\ thread_queue' = SubSeq(thread_queue, 1, Len(thread_queue) - 1)
    /\ UNCHANGED store_vars

\* the loop reads the oldest notification of the workers
DispatchNotification(kind, handled) ==
    /\ pc = "loop"
    /\ thread_queue # <<>>
    /\ Head(thread_queue).kind = kind
    /\ Iteration(kind, 0, Head(thread_queue).job, Head(thread_queue).file,
                 post_dispatch(handled, kind), "loop")
    /\ thread_queue' = Tail(thread_queue)
    /\ UNCHANGED store_vars

DispatchProgress ==
    DispatchNotification(TRANSCRIBE_PROGRESS, transcribe_progress(LS))

DispatchSuccess ==
    DispatchNotification(TRANSCRIBE_SUCCESS, transcribe_success(LS))

DispatchError ==
    DispatchNotification(TRANSCRIBE_ERROR, transcribe_error(LS))

DispatchStopped ==
    DispatchNotification(TRANSCRIBE_STOPPED, transcribe_stopped(LS))

\* the user clicks Cancel on the progress meter
UserCancelsMeter ==
    /\ pc = "loop"
    /\ active_meter # 0
    /\ ~meter_cancelled
    /\ Interactive(active_meter)
    /\ meter_cancelled' = TRUE
    /\ UNCHANGED <<store_vars, modal_vars, pc, window_kind, window_data,
                   window_tracker_windows, main_window, prompt_manager_window,
                   add_new_prompt_window, active_meter, transcriber, workers,
                   thread_queue, job_log, last>>

\* a step of a worker thread leaves everything of the loop alone
WorkerStep(job, worker, notifications) ==
    /\ pc = "loop"
    /\ workers' = [workers EXCEPT ![job] = worker]
    /\ thread_queue' = thread_queue \o notifications
    /\ UNCHANGED <<store_vars, modal_vars, pc, window_kind, window_data,
                   window_tracker_windows, main_window, prompt_manager_window,
                   add_new_prompt_window, active_meter, meter_cancelled,
                   transcriber, job_log, last>>

\* a worker that reports its files and nothing when it has ended
file_completed_silently(job, k, n, stop) ==
    <<Notification(job, TRANSCRIBE_PROGRESS, k)>>

\* what the worker of a job writes when it has finished its k-th file of
\* n: the file, then Success after the last file, or Stopped when a stop
\* was requested
file_completed(job, k, n, stop) ==
    <<Notification(job, TRANSCRIBE_PROGRESS, k)>>
    \o IF k = n THEN <<Notification(job, TRANSCRIBE_SUCCESS, 0)>>
       ELSE IF stop THEN <<Notification(job, TRANSCRIBE_STOPPED, 0)>>
       ELSE <<>>

\* the worker of a job finishes the file it is working on; after the last
\* file, or with a stop requested, it works on no further file
WorkerCompletesFile ==
    \E job \in DOMAIN workers :
        LET w == workers[job]
            k == w.k + 1
        IN  /\ ~w.ended
            /\ w.k < w.n
            /\ WorkerStep(job,
                          [w EXCEPT
                              !.k = k, !.ended = k = w.n \/ w.stop,
                              !.read = Append(@,
                                  [parameters |->
                                       worker_reads(w, initial_prompt_input),
                                   field |-> initial_prompt_input])],
                          file_completed(job, k, w.n, w.stop))

\* the file the worker is working on fails: the worker reports the error
\* and ends
WorkerFails ==
    \E job \in DOMAIN workers :
        /\ ~workers[job].ended
        /\ WorkerStep(job, [workers[job] EXCEPT !.ended = TRUE],
                      <<Notification(job, TRANSCRIBE_ERROR, 0)>>)

\* what the user may have typed in the name and prompt inputs of the add
\* and edit windows, and in the initial prompt field
LoopNames == {" ", "A"}
LoopPrompts == {"p2"}
TypedPrompts == {"typed"}

\* Save in an add or edit window: lines 194-242
AddEditPromptProfile ==
    \E window \in DOMAIN window_closed, new_profile_name \in LoopNames,
       new_profile_prompt \in LoopPrompts, obtained \in BOOLEAN :
        LET event == IF window_kind[window] = "add" THEN ADD_PROMPT_PROFILE
                     ELSE EDIT_PROMPT_PROFILE
            s == add_edit_prompt_profile(
                     [LS EXCEPT !.input.name = new_profile_name,
                                !.input.prompt = new_profile_prompt],
                     event, window, new_profile_name, new_profile_prompt,
                     obtained)
        IN  /\ pc = "loop"
            /\ window_kind[window] \in {"add", "edit"}
            /\ Interactive(window)
            /\ Len(event_queue) < MaxQueue
            /\ Iteration(event, window, 0, 0, iteration_end(s, event), pc_after(s))
            /\ StoreOf(s)
            /\ UNCHANGED thread_queue

\* Delete Profile in a prompt manager window: lines 244-275
DeletePrompt ==
    \E window \in DOMAIN window_closed, obtained \in BOOLEAN :
        \E row \in 0..Len(window_data[window].table) :
            LET s == delete_prompt([LS EXCEPT !.input.row = row], row,
                                   obtained)
            IN  /\ pc = "loop"
                /\ window_kind[window] = "prompt_manager"
                /\ Interactive(window)
                /\ Len(event_queue) < MaxQueue
                /\ Iteration(DELETE_PROMPT, window, 0, 0,
                             iteration_end(s, DELETE_PROMPT), pc_after(s))
                /\ StoreOf(s)
                /\ UNCHANGED thread_queue

\* Delete Profile read while a selection-changed event that the prompt
\* manager wrote is still waiting: lines 244-275
DeletePromptBeforeDispatch ==
    \E window \in DOMAIN window_closed, obtained \in BOOLEAN :
        \E row \in 0..Len(window_data[window].table) :
            LET s == delete_prompt([LS EXCEPT !.input.row = row], row,
                                   obtained)
            IN  /\ pc = "loop"
                /\ window_kind[window] = "prompt_manager"
                /\ Interactive(window)
                /\ event_queue # <<>>
                /\ Len(event_queue) < MaxPending
                /\ Iteration(DELETE_PROMPT, window, 0, 0,
                             iteration_end(s, DELETE_PROMPT), pc_after(s))
                /\ StoreOf(s)
                /\ UNCHANGED thread_queue

\* the user types in the initial prompt field of the main window
EditInitialPrompt ==
    \E text \in TypedPrompts :
        LET s == initial_prompt_edited([LS EXCEPT !.input.prompt = text],
                                       text)
        IN  /\ pc = "loop"
            /\ Interactive(main_window)
            /\ initial_prompt_input # text
            /\ Iteration(INITIAL_PROMPT_INPUT, main_window, 0, 0,
                         iteration_end(s, INITIAL_PROMPT_INPUT), pc_after(s))
            /\ StoreOf(s)
            /\ UNCHANGED thread_queue

\* the user picks a profile in the dropdown of the main window
SelectPromptProfile ==
    \E chosen \in SeqToSet(dropdown.values) :
        LET s == prompt_profile_dropdown_changed(
                     [LS EXCEPT !.input.name = chosen,
                                !.prompt_manager.dropdown.value = chosen],
                     chosen)
        IN  /\ pc = "loop"
            /\ Interactive(main_window)
            /\ event_queue = <<>>
            /\ Iteration(PROMPT_PROFILE_DROPDOWN, main_window, 0, 0,
                         iteration_end(s, PROMPT_PROFILE_DROPDOWN), pc_after(s))
            /\ StoreOf(s)
            /\ UNCHANGED thread_queue

\* the loop reads a selection the prompt manager wrote with
\* write_event_value
ReadWrittenSelection ==
    LET chosen == Head(event_queue)
        s == prompt_profile_dropdown_changed(
                 [LS EXCEPT !.input.name = chosen,
                            !.prompt_manager.queue = Tail(@)],
                 chosen)
    IN  /\ pc = "loop"
        /\ event_queue # <<>>
        /\ Iteration(PROMPT_PROFILE_DROPDOWN, main_window, 0, 0,
                     iteration_end(s, PROMPT_PROFILE_DROPDOWN), pc_after(s))
        /\ StoreOf(s)
        /\ UNCHANGED thread_queue

\* the job in progress
JobInProgress == transcriber.state \in {"Running", "Stopping"}

\* the user types in the initial prompt field while a job is in progress
EditInitialPromptDuringJob == JobInProgress /\ EditInitialPrompt

\* the user picks a profile in the dropdown while a job is in progress
SelectPromptProfileDuringJob == JobInProgress /\ SelectPromptProfile

\* Start with no job started before
StartFirstTranscription == workers = <<>> /\ StartTranscription

\* lines 211-219 while a job is in progress: Save in an edit window gives
\* the selected profile another prompt (the windows are left out)
EditProfileDuringJob ==
    \E profile_name \in SeqToSet(keys(saved_prompt_profiles)),
       profile_prompt \in LoopPrompts :
        /\ pc = "loop"
        /\ JobInProgress
        /\ profile_name = dropdown.value
        /\ dict_get(saved_prompt_profiles, profile_name, None) # profile_prompt
        /\ Len(event_queue) < MaxQueue
        /\ StoreCall("edit", <<profile_name, profile_prompt, profile_name>>,
                     edit_prompt_profile(PM, profile_name, profile_prompt,
                                         profile_name))

\* lines 244-262 while a job is in progress: Delete Profile removes a saved
\* profile (the windows are left out)
DeleteProfileDuringJob ==
    \E profile_name \in SeqToSet(keys(saved_prompt_profiles)) :
        /\ pc = "loop"
        /\ JobInProgress
        /\ Len(event_queue) < MaxQueue
        /\ StoreCall("delete", <<profile_name>>,
                     delete_prompt_profile(PM, profile_name))

\* the user drags a prompt manager window to another place; the loop reads
\* no event
UserMovesWindow ==
    \E window \in DOMAIN window_closed :
        /\ pc = "loop"
        /\ window_kind[window] = "prompt_manager"
        /\ Interactive(window)
        /\ window_data[window].location = "center"
        /\ window_data' = [window_data EXCEPT ![window].location = "moved"]
        /\ UNCHANGED <<store_vars, modal_vars, pc, window_kind,
                       window_tracker_windows, main_window,
                       prompt_manager_window, add_new_prompt_window,
                       active_meter, meter_cancelled, transcriber, workers,
                       thread_queue, job_log, last>>

\* the loop reads a close event of a window that the iteration before has
\* closed: the event was waiting when the window was closed
CloseClosedWindow ==
    \E window \in last.closed :
        /\ pc = "loop"
        /\ window # main_window
        /\ window_closed[window]
        /\ Iteration(WIN_CLOSED, window, 0, 0,
                     post_dispatch(other_window_closed(LS, window),
                                   WIN_CLOSED),
                     "loop")
        /\ UNCHANGED <<store_vars, thread_queue>>

\* transcription while the user edits the initial prompt, picks profiles
\* and the profiles are edited and deleted
PromptNext ==
    \/ MakeMainWindow
    \/ StartFirstTranscription
    \/ Timeout
    \/ DispatchProgress
    \/ DispatchSuccess
    \/ DispatchStopped
    \/ UserCancelsMeter
    \/ WorkerCompletesFile
    \/ EditInitialPromptDuringJob
    \/ SelectPromptProfileDuringJob
    \/ EditProfileDuringJob
    \/ DeleteProfileDuringJob
    \/ ReadWrittenSelection

\* Start that starts the first job
StartJob == StartFirstTranscription /\ workers' # <<>>

\* Apply of a scaling while a job is in progress
ApplyGlobalScalingDuringJob == JobInProgress /\ ApplyGlobalScaling

\* the profile the dropdown shows is deleted while a job is in progress:
\* a selection-changed event is written
DeleteSelectedProfileDuringJob ==
    DeleteProfileDuringJob /\ event_queue' # event_queue

\* a job from Start to the end, with the events of the user that may come
\* in between and a loop that is not left
JobNext ==
    \/ MakeMainWindow
    \/ StartJob
    \/ Timeout
    \/ DispatchProgress
    \/ DispatchSuccess
    \/ DispatchError
    \/ DispatchStopped
    \/ UserCancelsMeter
    \/ WorkerCompletesFile
    \/ WorkerFails
    \/ ApplyGlobalScalingDuringJob
    \/ CloseOtherWindow
    \/ DeleteSelectedProfileDuringJob
    \/ ReadWrittenSelection

\* the prompt manager and its windows in a loop that may read an event of
\* the user before a waiting selection-changed event
InterleavedNext ==
    \/ MakeMainWindow
    \/ CloseOtherWindow
    \/ StartPromptManager
    \/ OpenAddPromptWindow
    \/ OpenEditPromptWindow
    \/ AddEditPromptProfile
    \/ DeletePrompt
    \/ DeletePromptBeforeDispatch
    \/ ReadWrittenSelection
    \/ Timeout

\* the dropdown and the initial prompt field of the main window, with the
\* prompt manager and its windows
SelectionNext ==
    \/ MakeMainWindow
    \/ CloseOtherWindow
    \/ StartPromptManager
    \/ OpenAddPromptWindow
    \/ OpenEditPromptWindow
    \/ AddEditPromptProfile
    \/ DeletePrompt
    \/ ReadWrittenSelection
    \/ SelectPromptProfile
    \/ EditInitialPrompt

\* the dropdown, the initial prompt field and the prompt manager windows
\* while Apply of the scaling remakes the main window
ScalingNext ==
    \/ MakeMainWindow
    \/ CloseMainWindow
    \/ CloseOtherWindow
    \/ StartPromptManager
    \/ OpenAddPromptWindow
    \/ OpenEditPromptWindow
    \/ AddEditPromptProfile
    \/ DeletePrompt
    \/ ReadWrittenSelection
    \/ SelectPromptProfile
    \/ EditInitialPrompt
    \/ ApplyGlobalScaling

\* the prompt manager and its windows in the loop
ManagerNext ==
    \/ MakeMainWindow
    \/ CloseMainWindow
    \/ CloseOtherWindow
    \/ CloseClosedWindow
    \/ StartPromptManager
    \/ OpenAddPromptWindow
    \/ OpenEditPromptWindow
    \/ AddEditPromptProfile
    \/ DeletePrompt
    \/ ReadWrittenSelection
    \/ UserMovesWindow
    \/ ApplyInvalidScaling
    \/ ApplyGlobalScaling
    \/ Timeout

LoopNext ==
    \/ MakeMainWindow
    \/ CloseMainWindow
    \/ CloseOtherWindow
    \/ StartPromptManager
    \/ OpenAddPromptWindow
    \/ OpenEditPromptWindow
    \/ ApplyInvalidScaling
    \/ ApplyGlobalScaling
    \/ StartTranscription
    \/ Timeout
    \/ DispatchProgress
    \/ DispatchSuccess
    \/ DispatchError
    \/ DispatchStopped
    \/ UserCancelsMeter
    \/ WorkerCompletesFile
    \/ WorkerFails

----------------------------------------------------------------------------
(* Specifications *)

Init == StoreInit /\ ModalInit /\ LoopInit

\* the profile store, its dropdown and the selection events
Next == StoreNext

Spec == Init /\ [][Next]_vars

\* the modal window manager
ModalSpec == Init /\ [][ModalNext]_vars

\* the dispatch loop, its windows, the transcriber and the workers, started
\* with the settings a previous run left
LoopStart == Init /\ user_settings # NoSettings

LoopSpec == LoopStart /\ [][LoopNext]_vars

\* the dispatch loop with the prompt manager windows and no job
ManagerSpec == LoopStart /\ [][ManagerNext]_vars

\* the dispatch loop reading events of the user and waiting
\* selection-changed events in any order
InterleavedSpec == LoopStart /\ [][InterleavedNext]_vars

\* the dispatch loop with the dropdown, the initial prompt field and the
\* prompt manager windows
SelectionSpec == LoopStart /\ [][SelectionNext]_vars

\* the dispatch loop with the dropdown, the initial prompt field, the
\* prompt manager windows and the remake of the main window
ScalingSpec == LoopStart /\ [][ScalingNext]_vars

\* a worker thread that can go on does go on (it is a thread of its own,
\* line 436), and a notification that waits is read: read_all_windows
\* (line 94) returns every written event, whatever the user does meanwhile
JobFairness ==
    /\ WF_vars(WorkerCompletesFile \/ WorkerFails)
    /\ WF_vars(DispatchProgress \/ DispatchSuccess \/ DispatchError
                   \/ DispatchStopped)

\* jobs in a loop that goes on, with worker threads that go on
JobSpec == LoopStart /\ [][JobNext]_vars /\ JobFairness

\* jobs while the initial prompt, the selection and the profiles change
PromptSpec == LoopStart /\ [][PromptNext]_vars

----------------------------------------------------------------------------
(* Properties of the profile store.  call holds the last call of a method  *)
(* of the manager: its arguments, its result, the effects it had outside   *)
(* the manager in order, and the state it started from.                    *)

IsBlank(name) == name \in {"", " "}

InvalidName == {ERR_EMPTY_NAME, ERR_NAME_IN_USE}

\* the last call left the mapping, the settings, the dropdown and the queue
\* as they were and did nothing outside the manager
StoreUnchanged ==
    /\ saved_prompt_profiles = call.before.saved
    /\ user_settings = call.before.settings
    /\ dropdown = call.before.dropdown
    /\ event_queue = call.before.queue
    /\ call.trace = <<>>

NoDuplicates(s) == \A i, j \in 1..Len(s) : s[i] = s[j] => i = j

Ascending(s) == \A i, j \in 1..Len(s) : i < j => str_lt(s[i], s[j])

\* the sentinel, then the names of the mapping d in ascending order
NamesOf(d) == <<unsaved_prompt_profile_name>> \o sorted(keys(d))

\* the last call was a successful add, a successful edit or a delete that
\* returned
Mutated == call.op \in {"add", "edit", "delete"} /\ call.success

\* C1: prompt_profile_names has no duplicate name and is the sentinel
\* followed by the saved profile names in ascending order.
C1_NamesAreSentinelThenSortedSaved ==
    LET names == prompt_profile_names(saved_prompt_profiles_getter(PM))
    IN  /\ NoDuplicates(names)
        /\ names[1] = unsaved_prompt_profile_name
        /\ Ascending(Tail(names))
        /\ SeqToSet(Tail(names)) = SeqToSet(keys(saved_prompt_profiles))
        /\ Len(names) = 1 + Len(saved_prompt_profiles)

\* C2: add_prompt_profile fails with an InvalidName message and changes
\* nothing when the name is blank or already a profile name (saved or the
\* sentinel); otherwise it stores name -> prompt, persists it and succeeds.
C2_AddRejectsBlankAndUsedNames ==
    call.op = "add" =>
        LET profile_name == call.args[1]
            profile_prompt == call.args[2]
        IN  /\ call.raised = ""
            /\ IF \/ IsBlank(profile_name)
                  \/ profile_name = unsaved_prompt_profile_name
                  \/ HasKey(call.before.saved, profile_name)
               THEN /\ ~call.success
                    /\ call.error_msg \in InvalidName
                    /\ StoreUnchanged
               ELSE /\ call.success
                    /\ call.error_msg = ""
                    /\ dict_get(saved_prompt_profiles, profile_name, None)
                           = profile_prompt
                    /\ SAVED_PROMPTS_SETTINGS \in DOMAIN user_settings
                    /\ dict_get(user_settings[SAVED_PROMPTS_SETTINGS],
                                profile_name, None) = profile_prompt

\* add("A", "p2") was refused because "A" is in use, and "A" is still "p1"
C2_Witness ==
    /\ call.op = "add"
    /\ call.args = <<"A", "p2">>
    /\ ~call.success
    /\ call.error_msg = ERR_NAME_IN_USE
    /\ dict_get(saved_prompt_profiles, "A", None) = "p1"

\* C3: a successful edit leaves name -> prompt, no original_name (when the
\* name changed) and every other entry as it was; each write to the
\* settings and each update of the dropdown during the call carries that
\* final mapping, never the one with the original removed only.
C3_EditReplacesOriginalAtomically ==
    (call.op = "edit" /\ call.success) =>
        LET profile_name == call.args[1]
            profile_prompt == call.args[2]
            original_profile_name == call.args[3]
        IN  /\ dict_get(saved_prompt_profiles, profile_name, None)
                   = profile_prompt
            /\ profile_name # original_profile_name
                   => ~HasKey(saved_prompt_profiles, original_profile_name)
            /\ \A k \in KeyInputs \ {profile_name, original_profile_name} :
                   dict_get(saved_prompt_profiles, k, None)
                       = dict_get(call.before.saved, k, None)
            /\ NoDuplicates(keys(saved_prompt_profiles))
            /\ \A i \in 1..Len(call.trace) :
                   /\ call.trace[i].kind = "set_entry"
                          => call.trace[i].mapping = saved_prompt_profiles
                   /\ call.trace[i].kind = "update"
                          => call.trace[i].values
                                 = NamesOf(saved_prompt_profiles)
            /\ user_settings[SAVED_PROMPTS_SETTINGS] = saved_prompt_profiles

\* edit("B", "p2", original "A") succeeded with "B" unused and "A" saved:
\* "B" is "p2" and "A" is gone
C3_Witness ==
    /\ call.op = "edit"
    /\ call.args = <<"B", "p2", "A">>
    /\ call.success
    /\ HasKey(call.before.saved, "A")
    /\ ~HasKey(call.before.saved, "B")
    /\ dict_get(saved_prompt_profiles, "B", None) = "p2"
    /\ ~HasKey(saved_prompt_profiles, "A")
    /\ user_settings[SAVED_PROMPTS_SETTINGS] = saved_prompt_profiles

\* C4: edit_prompt_profile fails with an InvalidName message when the new
\* name is blank, or differs from original_name and is already a profile
\* name (saved or the sentinel); the failed call changes nothing, so an
\* original_name that was saved still is.
C4_EditRejectsBlankAndUsedNames ==
    call.op = "edit" =>
        LET profile_name == call.args[1]
            original_profile_name == call.args[3]
        IN  /\ call.raised = ""
            /\ (\/ IsBlank(profile_name)
                \/ /\ profile_name # original_profile_name
                   /\ \/ profile_name = unsaved_prompt_profile_name
                      \/ HasKey(call.before.saved, profile_name))
               => /\ ~call.success
                  /\ call.error_msg \in InvalidName
                  /\ StoreUnchanged
                  /\ HasKey(call.before.saved, original_profile_name)
                         => HasKey(saved_prompt_profiles,
                                   original_profile_name)

\* edit("B", "p1", original "A") was refused while "A" and "B" are saved
C4_Witness ==
    /\ call.op = "edit"
    /\ call.args = <<"B", "p1", "A">>
    /\ ~call.success
    /\ call.error_msg = ERR_NAME_IN_USE
    /\ HasKey(saved_prompt_profiles, "A")
    /\ dict_get(saved_prompt_profiles, "B", None) = "p2"

\* C5: delete_prompt_profile removes a saved profile, and for a name that
\* is not saved it raises no error and changes nothing.
C5_DeleteOfAbsentNameIsSilent ==
    call.op = "delete" =>
        IF HasKey(call.before.saved, call.args[1])
        THEN call.raised = "" /\ ~HasKey(saved_prompt_profiles, call.args[1])
        ELSE call.raised = "" /\ StoreUnchanged

\* C6: neither the saved mapping nor the persisted mapping ever has the
\* sentinel as a key.
C6_SentinelIsNeverStored ==
    /\ ~HasKey(saved_prompt_profiles, unsaved_prompt_profile_name)
    /\ SAVED_PROMPTS_SETTINGS \in DOMAIN user_settings
           => ~HasKey(user_settings[SAVED_PROMPTS_SETTINGS],
                      unsaved_prompt_profile_name)

\* C7: a successful add, a successful edit and a delete that returns write
\* the whole mapping to the settings before anything is sent to the
\* dropdown, and after such a call the persisted mapping is the saved one.
C7_MutationsArePersistedBeforeReturn ==
    Mutated =>
        /\ SAVED_PROMPTS_SETTINGS \in DOMAIN user_settings
        /\ user_settings[SAVED_PROMPTS_SETTINGS] = saved_prompt_profiles
        /\ call.trace # <<>>
        /\ call.trace[1].kind = "set_entry"
        /\ call.trace[1].mapping = saved_prompt_profiles

\* delete("B") returned with a dropdown bound: the settings hold the
\* mapping without "B", written before the dropdown was updated
C7_Witness ==
    /\ call.op = "delete"
    /\ call.args = <<"B">>
    /\ call.success
    /\ user_settings[SAVED_PROMPTS_SETTINGS] = saved_prompt_profiles
    /\ saved_prompt_profiles = <<Item("A", "p1")>>
    /\ Len(call.trace) = 2
    /\ call.trace[2].kind = "update"

\* the write_event_value effects of the last call
WrittenEvents == SelectSeq(call.trace, LAMBDA e : e.kind = "write_event_value")

\* the last call gave the dropdown the current profile names, selected
\* `selected` and queued one selection-changed event that carries it
Reselected(selected) ==
    /\ dropdown.values = NamesOf(saved_prompt_profiles)
    /\ dropdown.value = selected
    /\ event_queue = Append(call.before.queue, selected)
    /\ Len(WrittenEvents) = 1
    /\ WrittenEvents[1].value = selected

\* the last call gave the dropdown the current profile names and nothing else
OnlyOptionsRefreshed ==
    /\ dropdown.values = NamesOf(saved_prompt_profiles)
    /\ dropdown.value = call.before.dropdown.value
    /\ event_queue = call.before.queue
    /\ WrittenEvents = <<>>

\* C8: with a dropdown bound, a successful edit of the selected profile
\* selects the new name and a delete of the selected profile selects the
\* sentinel; the options become prompt_profile_names and exactly one
\* selection-changed event with the new selection is queued.
C8_EditOrDeleteOfSelectedReselects ==
    (Mutated /\ call.before.dropdown.bound) =>
        /\ (call.op = "edit" /\ call.args[3] = call.before.dropdown.value)
               => Reselected(call.args[1])
        /\ (call.op = "delete" /\ call.args[1] = call.before.dropdown.value)
               => Reselected(unsaved_prompt_profile_name)

\* "A" was selected and edit("B", "p2", original "A") selected "B"
C8_Witness ==
    /\ call.op = "edit"
    /\ call.args = <<"B", "p2", "A">>
    /\ call.success
    /\ call.before.dropdown.bound
    /\ call.before.dropdown.value = "A"
    /\ dropdown.value = "B"
    /\ dropdown.values = <<unsaved_prompt_profile_name, "B">>
    /\ event_queue = <<"B">>

\* C9: with a dropdown bound, a successful add, a successful edit of a
\* profile that is not selected and a delete of a profile that is not
\* selected give the dropdown the new options only: the selection stays
\* and no selection-changed event is queued.
C9_OtherMutationsKeepSelection ==
    (Mutated /\ call.before.dropdown.bound) =>
        /\ call.op = "add" => OnlyOptionsRefreshed
        /\ (call.op = "edit" /\ call.args[3] # call.before.dropdown.value)
               => OnlyOptionsRefreshed
        /\ (call.op = "delete" /\ call.args[1] # call.before.dropdown.value)
               => OnlyOptionsRefreshed

\* "A" is selected, delete("B") returned: "A" still is and nothing is queued
C9_Witness ==
    /\ call.op = "delete"
    /\ call.args = <<"B">>
    /\ call.success
    /\ call.before.dropdown.bound
    /\ call.before.dropdown.value = "A"
    /\ dropdown.value = "A"
    /\ dropdown.values = <<unsaved_prompt_profile_name, "A">>
    /\ event_queue = <<>>

----------------------------------------------------------------------------
(* Properties of the modal window manager *)

\* the positions of modal_window_stack that hold an open window
OpenTracked ==
    {i \in 1..Len(modal_window_stack) : ~window_closed[modal_window_stack[i]]}

\* C10: after update(), at most one window is modal, and it is the most
\* recently tracked window that is still open (none when there is none).
C10_ModalIsNewestOpenTracked ==
    modal_call.op = "update" =>
        /\ Cardinality(modal_windows) <= 1
        /\ IF OpenTracked = {} THEN modal_windows = {}
           ELSE modal_windows =
                    {modal_window_stack[
                        CHOOSE i \in OpenTracked :
                            \A j \in OpenTracked : j <= i]}

\* windows 1, 2, 3 were tracked in order, 2 was closed: update() dropped it
\* and made 3 modal
C10_Witness ==
    /\ modal_call.op = "update"
    /\ modal_call.dropped = {2}
    /\ modal_window_stack = <<1, 3>>
    /\ window_closed = <<FALSE, TRUE, FALSE>>
    /\ modal_windows = {3}

----------------------------------------------------------------------------
(* Properties of the dispatch loop.  last holds what the last iteration    *)
(* read and did and what it started from; job_log holds, per job, the      *)
(* notifications dispatched so far.                                        *)

\* the loop has run an iteration and is still running
Iterated == pc = "loop" /\ last.event # ""

\* the newest tracked window that is open is modal and no other is
Reconciled ==
    /\ \A i \in 1..Len(modal_window_stack) :
           ~window_closed[modal_window_stack[i]]
    /\ modal_windows = IF modal_window_stack = <<>> THEN {}
                       ELSE {Last(modal_window_stack)}

\* C11: every open window that is tracked as a modal window is in the
\* windows of the window tracker.
C11_OpenModalWindowsAreTracked ==
    \A i \in 1..Len(modal_window_stack) :
        ~window_closed[modal_window_stack[i]]
            => modal_window_stack[i] \in window_tracker_windows

\* C12: every iteration runs the statements after the handlers: a job that
\* reported Error or Stopped is finalized, the meter of a job that is
\* Running and not Stopping is refreshed and the modal window manager is
\* updated, whatever the event was.
C12_PostDispatchRunsInEveryIteration ==
    Iterated =>
        /\ last.post_dispatch
        /\ last.event \in TRANSCRIBE_DONE_NO_SUCCESS_EVENTS
               => transcriber.state = "Done"
        /\ transcriber.state = "Running" => last.refreshed
        /\ Reconciled

\* C13: closing the main window ends the loop, and a job that was
\* transcribing then has been asked to stop and its worker has ended when
\* the main window is closed.
C13_WorkerIsTornDownBeforeMainWindowCloses ==
    (last.event = WIN_CLOSED /\ last.window = main_window) =>
        /\ pc = "closed"
        /\ window_closed[main_window]
        /\ last.before.transcriber.transcribe_thread # 0
               => /\ last.stop_calls # <<>>
                  /\ workers[last.before.transcriber.transcribe_thread].ended

\* C14: at most one worker is alive, and a Start event read while a job is
\* Running or Stopping spawns no worker and leaves num_tasks and
\* num_tasks_done of the job as they are.
C14_StartWhileTranscribingIsRejected ==
    /\ Cardinality(DOMAIN workers \ Ended(workers)) <= 1
    /\ (/\ last.event = START
        /\ last.before.transcriber.state \in {"Running", "Stopping"})
       => /\ transcriber.transcribe_thread
                 = last.before.transcriber.transcribe_thread
          /\ transcriber.num_tasks = last.before.transcriber.num_tasks
          /\ transcriber.num_tasks_done
                 = last.before.transcriber.num_tasks_done

\* C15: num_tasks_done never exceeds num_tasks, and a job that is Done has
\* released its worker thread.
C15_DoneCountNeverExceedsTaskCount ==
    /\ transcriber.num_tasks_done <= transcriber.num_tasks
    /\ transcriber.state = "Done" => transcriber.transcribe_thread = 0

\* how many Progress notifications of a job have been dispatched
ProgressDispatched(job) ==
    Len(SelectSeq(job_log[job], LAMBDA e : e.kind = TRANSCRIBE_PROGRESS))

\* every notification of the job was dispatched while the transcriber held
\* the job, and no notification of another job was
RanAlone(job) ==
    \A j \in DOMAIN job_log : \A i \in 1..Len(job_log[j]) :
        job_log[j][i].current = job <=> j = job

C17_DoneIsCalledOncePerTerminalNotification ==
    /\ \A job \in DOMAIN job_log : \A i \in 1..Len(job_log[job]) :
           LET e == job_log[job][i]
           IN  /\ e.kind = TRANSCRIBE_PROGRESS => e.done_calls = <<>>
               /\ e.kind \in TerminalEvents
                      => /\ Len(e.done_calls) = 1
                         /\ e.done_calls[1].success
                                <=> e.kind = TRANSCRIBE_SUCCESS
                         /\ \A k \in 1..Len(job_log[job]) :
                                job_log[job][k].kind \in TerminalEvents
                                    => k = i
    /\ last.job = 0 => last.done_calls = <<>>

\* the user cancelled job 1 while its worker had finished neither file:
\* Stopped was dispatched and the loop called done(False) once
C17_Witness ==
    /\ last.event = TRANSCRIBE_STOPPED
    /\ last.job = 1
    /\ last.before.transcriber.state = "Stopping"
    /\ Len(job_log[1]) = 2
    /\ job_log[1][1].kind = TRANSCRIBE_PROGRESS
    /\ job_log[1][2].done_calls
           = <<[success |-> FALSE, effective |-> TRUE, elapsed |-> 1]>>

\* C18: a Cancel on the meter of a Running job calls stop() once, which
\* makes the job Stopping unless the worker had finished; the Stopped
\* notification makes the job Done in the iteration that dispatches it
\* and opens no popup.
C18_CancelStopsAndStoppedFinalizes ==
    /\ (Iterated /\ last.before.meter_cancelled /\ last.refreshed)
           => /\ Len(last.stop_calls) = 1
              /\ active_meter = 0
              /\ last.stop_calls[1] = "signalled"
                     => transcriber.state = "Stopping"
              /\ last.stop_calls[1] = "no-op"
                     => workers[transcriber.transcribe_thread].ended
    /\ last.event = TRANSCRIBE_STOPPED
           => /\ transcriber.state = "Done"
              /\ transcriber.transcribe_thread = 0
              /\ last.popups = <<>>
              /\ Len(last.done_calls) = 1
              /\ ~last.done_calls[1].success

\* job 1 was Stopping after a Cancel; its Stopped notification was
\* dispatched: the job is Done and no popup was opened
C18_Witness ==
    /\ last.event = TRANSCRIBE_STOPPED
    /\ last.job = 1
    /\ last.before.transcriber.state = "Stopping"
    /\ last.before.transcriber.transcribe_thread = 1
    /\ last.before.signalled = {1}
    /\ transcriber.state = "Done"
    /\ last.popups = <<>>
    /\ last.done_calls[1].effective

\* C19: stop() called for a job that is Stopping, or whose worker has
\* finished, changes nothing of the job and signals no worker.
C19_LateOrRepeatedStopChangesNothing ==
    (/\ last.stop_calls # <<>>
     /\ \/ last.before.transcriber.state = "Stopping"
        \/ transcriber.transcribe_thread \in last.before.ended)
    => /\ Signalled(workers) = last.before.signalled
       /\ transcriber.state = "Stopping"
              => last.before.transcriber.state = "Stopping"
       /\ last.event = WIN_CLOSED => transcriber = last.before.transcriber

\* the worker had finished its last file and Success was still queued when
\* the main window was closed: stop() was called and changed nothing
C19_Witness ==
    /\ pc = "closed"
    /\ last.stop_calls = <<"no-op">>
    /\ last.before.transcriber.state = "Running"
    /\ last.before.transcriber.transcribe_thread \in last.before.ended
    /\ transcriber = last.before.transcriber
    /\ Signalled(workers) = {}
    /\ thread_queue # <<>>

\* the job has a notification that is not dispatched yet
Queued(job) == \E i \in 1..Len(thread_queue) : thread_queue[i].job = job

\* C20: the Progress notifications of a job are dispatched in the order of
\* its files, a terminal notification is the last one dispatched for the
\* job, and once the worker has ended and nothing of the job is queued
\* exactly one terminal notification has been dispatched.
C20_ProgressInOrderThenOneTerminal ==
    \A job \in DOMAIN job_log :
        LET log == job_log[job]
        IN  /\ \A i \in 1..Len(log) :
                   /\ log[i].kind = TRANSCRIBE_PROGRESS => log[i].file = i
                   /\ log[i].kind \in TerminalEvents => i = Len(log)
            /\ (workers[job].ended /\ ~Queued(job))
                   => /\ log # <<>>
                      /\ Last(log).kind \in TerminalEvents

\* both files of job 1 were reported in order, then Success
C20_Witness ==
    /\ Len(job_log) >= 1
    /\ Len(job_log[1]) = 3
    /\ job_log[1][1].kind = TRANSCRIBE_PROGRESS
    /\ job_log[1][1].file = 1
    /\ job_log[1][2].kind = TRANSCRIBE_PROGRESS
    /\ job_log[1][2].file = 2
    /\ job_log[1][3].kind = TRANSCRIBE_SUCCESS
    /\ ~Queued(1)

\* the changes of the job state the lifecycle has
Lifecycle ==
    {<<"Idle", "Running">>, <<"Running", "Stopping">>, <<"Running", "Done">>,
     <<"Stopping", "Done">>, <<"Done", "Running">>}

\* C21: an iteration changes the job state along Idle -> Running,
\* Running -> Stopping, Running -> Done, Stopping -> Done or Done -> Running
\* only; a Stopping job does not become Running again and a Done job is
\* left by a Start event only.
C21_JobStateFollowsLifecycle ==
    LET from == last.before.transcriber.state
        to == transcriber.state
    IN  /\ from # to => <<from, to>> \in Lifecycle
        /\ (from = "Done" /\ to # "Done") => last.event = START

\* C25: the iteration that dispatches an Error notification calls
\* done(success=False) once and leaves the job Done with no worker handle
\* (the worker that failed has ended and no job is started in its place),
\* the progress meter closed and an "ERROR" popup open; the loop goes on.
C25_ErrorFinalizesJobAsFailed ==
    last.event = TRANSCRIBE_ERROR =>
        /\ transcriber.state = "Done"
        /\ transcriber.transcribe_thread = 0
        /\ Len(last.done_calls) = 1
        /\ ~last.done_calls[1].success
        /\ active_meter = 0
        /\ last.before.active_meter # 0
               => window_closed[last.before.active_meter]
        /\ last.popups = <<"ERROR">>
        /\ \E w \in last.made :
               /\ window_kind[w] = "popup"
               /\ ~window_closed[w]
               /\ modal_windows = {w}
        /\ workers[last.job].ended
        /\ pc = "loop"

\* the worker of job 1 failed while the job was Running with its meter
\* open: the Error notification was dispatched, the job is Done, the meter
\* is closed and the popup is open
C25_Witness ==
    /\ last.event = TRANSCRIBE_ERROR
    /\ last.job = 1
    /\ last.before.transcriber.state = "Running"
    /\ last.before.active_meter = 2
    /\ window_closed[2]
    /\ transcriber.state = "Done"
    /\ last.done_calls
           = <<[success |-> FALSE, effective |-> TRUE, elapsed |-> 0]>>
    /\ last.popups = <<"ERROR">>
    /\ Len(workers) = 1
    /\ pc = "loop"

----------------------------------------------------------------------------
(* Properties of the prompt manager windows in the loop *)

\* C30: a window holds the modal grab only if it is tracked by the modal
\* window manager; the main window, which is given to the window tracker
\* only, never holds it.
C30_UntrackedWindowsAreNeverModal ==
    /\ modal_windows \subseteq SeqToSet(modal_window_stack)
    /\ \A w \in DOMAIN window_kind :
           window_kind[w] = "main"
               => /\ w \notin SeqToSet(modal_window_stack)
                  /\ w \notin modal_windows

\* the modal window manager was updated in an iteration that remade the
\* main window while a popup was open: the popup was closed with the
\* tracked windows, the new main window is open and no window is modal
C30_Witness ==
    /\ last.event = APPLY_GLOBAL_SCALING
    /\ last.post_dispatch
    /\ last.closed # {}
    /\ \E w \in last.closed : window_kind[w] = "popup"
    /\ ~window_closed[main_window]
    /\ main_window \in last.made
    /\ modal_windows = {}

\* the last iteration saved or deleted a profile and reloaded the prompt
\* manager window
Reloaded ==
    /\ pc = "loop"
    /\ last.event \in {ADD_PROMPT_PROFILE, EDIT_PROMPT_PROFILE, DELETE_PROMPT}
    /\ last.before.prompt_manager_window # 0
    /\ prompt_manager_window \in last.made

\* C23: the window reload_prompt_manager_window makes is tracked by the
\* window tracker and by the modal window manager, so it is the newest
\* tracked modal window and holds the modal grab after the update() at the
\* end of the iteration.
C23_ReloadedWindowIsTrackedAndModal ==
    Reloaded =>
        /\ prompt_manager_window \in window_tracker_windows
        /\ modal_window_stack # <<>>
        /\ Last(modal_window_stack) = prompt_manager_window
        /\ modal_windows = {prompt_manager_window}

\* the last iteration saved or deleted a profile and showed no error
Mutating ==
    /\ pc = "loop"
    /\ last.event \in {ADD_PROMPT_PROFILE, EDIT_PROMPT_PROFILE, DELETE_PROMPT}
    /\ last.raised = ""
    /\ last.popups = <<>>

\* the prompt manager windows that were open when the last iteration began
OpenPromptManagersBefore ==
    {w \in DOMAIN window_kind \ last.made :
        /\ window_kind[w] = "prompt_manager"
        /\ ~window_closed[w] \/ w \in last.closed}

\* C22: after an iteration that saved or deleted a profile while a prompt
\* manager window was open, that window is closed and
\* prompt_manager_window is a window made in the iteration, open, at the
\* place the old window was and showing the saved profiles as they are
\* now.
C22_MutationReloadsPromptManagerWindow ==
    (Mutating /\ OpenPromptManagersBefore # {}) =>
        /\ \A w \in OpenPromptManagersBefore : window_closed[w]
        /\ prompt_manager_window \in last.made
        /\ ~window_closed[prompt_manager_window]
        /\ window_kind[prompt_manager_window] = "prompt_manager"
        /\ window_data[prompt_manager_window].table
               = saved_prompt_profiles_list(PM)
        /\ \A w \in OpenPromptManagersBefore :
               window_data[prompt_manager_window].location
                   = window_data[w].location

\* the profile store, the dropdown and the initial prompt field as they are
StoreNow ==
    [saved |-> saved_prompt_profiles, settings |-> user_settings,
     dropdown |-> dropdown, queue |-> event_queue,
     input |-> initial_prompt_input]

\* the last iteration read Save of an add or edit window and the name was
\* refused
RejectedName ==
    /\ last.event \in {ADD_PROMPT_PROFILE, EDIT_PROMPT_PROFILE}
    /\ ~call.success

\* the last iteration read Edit Profile or Delete Profile with no table
\* row selected
NoRowSelected ==
    /\ last.event \in {OPEN_EDIT_PROMPT_WINDOW, DELETE_PROMPT}
    /\ last.input.row = 0

\* the last iteration read Apply with a scaling input that is no number or
\* out of range
RejectedScaling ==
    /\ last.event = APPLY_GLOBAL_SCALING
    /\ scaling_invalid(last.input.scaling)

\* C24: an iteration that reads a Save with a refused profile name, an
\* Edit or Delete with no row selected, or an Apply with an invalid scaling
\* input opens one popup that says so and changes nothing else: the
\* profile store, the job and the other windows are as they were, and the
\* loop goes on.
C24_ValidationErrorsOnlyOpenPopup ==
    (last.event # "" /\ (RejectedName \/ NoRowSelected \/ RejectedScaling)) =>
        /\ last.popups = <<IF RejectedName THEN "Invalid prompt name"
                           ELSE IF NoRowSelected THEN "Invalid selection"
                           ELSE "Invalid scaling factor">>
        /\ \E w \in DOMAIN window_kind :
               /\ last.made = {w}
               /\ window_kind[w] = "popup"
               /\ ~window_closed[w]
        /\ last.closed = {}
        /\ StoreNow = last.before.store
        /\ RejectedName => call.error_msg \in InvalidName /\ StoreUnchanged
        /\ transcriber = last.before.transcriber
        /\ Signalled(workers) = last.before.signalled
        /\ prompt_manager_window = last.before.prompt_manager_window
        /\ last.raised = ""
        /\ pc = "loop"

\* Save in the add window with the name "A", which is in use: the popup is
\* open, the add window is still open and "A" has the prompt it had
C24_Witness ==
    /\ last.event = ADD_PROMPT_PROFILE
    /\ last.input.name = "A"
    /\ ~call.success
    /\ call.error_msg = ERR_NAME_IN_USE
    /\ last.popups = <<"Invalid prompt name">>
    /\ add_new_prompt_window = last.window
    /\ ~window_closed[last.window]
    /\ dict_get(saved_prompt_profiles, "A", None) = "p1"
    /\ pc = "loop"

\* the windows the loop tracks and refers to, as they are
WindowsNow ==
    [stack |-> modal_window_stack, modal |-> modal_windows,
     tracked |-> window_tracker_windows,
     add_new_prompt_window |-> add_new_prompt_window]

\* the last iteration left everything as it found it
NothingChanged ==
    /\ last.raised = ""
    /\ last.popups = <<>>
    /\ last.made = {}
    /\ last.closed = {}
    /\ WindowsNow = last.before.windows
    /\ prompt_manager_window = last.before.prompt_manager_window
    /\ StoreNow = last.before.store
    /\ transcriber = last.before.transcriber
    /\ pc = "loop"

\* the last iteration read the close of a window that was closed already
ClosedAgain ==
    /\ last.event = WIN_CLOSED
    /\ last.window # main_window
    /\ last.closed = {}

\* the last iteration read no event and began with no modal window tracked
ReconciledNothing ==
    /\ last.event = TIMEOUT_EVENT
    /\ last.before.windows.stack = <<>>

\* C27: an iteration that reads the close of a window that is closed
\* already, and the update of the modal window manager at the end of an
\* iteration that began with no modal window tracked, raise nothing and
\* leave the windows, the references of the loop, the profile store and
\* the job as they were.
C27_CloseAndReconcileAreIdempotent ==
    (ClosedAgain \/ ReconciledNothing) => NothingChanged

\* the last iteration reloaded the prompt manager window and could not
\* obtain the location of the window
MissingWindowLocation == "PopupError" \in SeqToSet(last.popups)

\* C28: when a reload cannot obtain the location of the prompt manager
\* window, the error is shown to the user, no window is made, the loop
\* no longer refers to a prompt manager window, nothing is raised and the
\* loop goes on to read the next event.
C28_MissingLocationIsReportedAndLoopGoesOn ==
    MissingWindowLocation =>
        /\ last.event \in {ADD_PROMPT_PROFILE, EDIT_PROMPT_PROFILE,
                           DELETE_PROMPT}
        /\ last.popups = <<"PopupError">>
        /\ last.made = {}
        /\ last.before.prompt_manager_window # 0
        /\ ~window_closed[last.before.prompt_manager_window]
        /\ prompt_manager_window = 0
        /\ last.raised = ""
        /\ last.post_dispatch
        /\ pc = "loop"
        /\ ENABLED Timeout

\* Delete Profile removed the profile of the first row and the reload
\* could not obtain the location
C28_Witness ==
    /\ MissingWindowLocation
    /\ last.event = DELETE_PROMPT
    /\ call.op = "delete"
    /\ call.success
    /\ ~window_closed[last.window]
    /\ pc = "loop"

----------------------------------------------------------------------------
(* The profile store with no dropdown bound *)

\* C29: with no dropdown bound, a successful add or edit and a delete that
\* returns change the mapping as asked, save it to the settings and return
\* normally; the dropdown is not updated and no selection-changed event is
\* queued: the one effect outside the manager is the write of the settings.
C29_StoreToleratesAbsentDropdown ==
    (Mutated /\ ~call.before.dropdown.bound) =>
        /\ call.raised = ""
        /\ call.op = "add" =>
               /\ ~HasKey(call.before.saved, call.args[1])
               /\ dict_get(saved_prompt_profiles, call.args[1], None) = call.args[2]
        /\ call.op = "edit" =>
               /\ dict_get(saved_prompt_profiles, call.args[1], None) = call.args[2]
               /\ call.args[1] # call.args[3] =>
                      ~HasKey(saved_prompt_profiles, call.args[3])
        /\ call.op = "delete" =>
               /\ HasKey(call.before.saved, call.args[1])
               /\ ~HasKey(saved_prompt_profiles, call.args[1])
        /\ user_settings_get_entry(user_settings, SAVED_PROMPTS_SETTINGS, None)
               = saved_prompt_profiles
        /\ dropdown = call.before.dropdown
        /\ ~dropdown.bound
        /\ event_queue = call.before.queue
        /\ call.trace = <<Effect("set_entry", saved_prompt_profiles, <<>>, "")>>

\* a saved profile is deleted before any dropdown is bound
C29_Witness ==
    /\ call.op = "delete"
    /\ call.success
    /\ ~call.before.dropdown.bound
    /\ HasKey(call.before.saved, call.args[1])
    /\ ~HasKey(saved_prompt_profiles, call.args[1])
    /\ user_settings[SAVED_PROMPTS_SETTINGS] = saved_prompt_profiles

----------------------------------------------------------------------------
(* Properties of the parameters of a job *)

\* the last iteration read Start and started a job
JobStarted == last.event = START /\ last.popups = <<>> /\ workers # <<>>

\* C26: the files and the initial prompt of a job are what the main window
\* held when Start was read, and the worker works on every file with
\* exactly these, whatever the initial prompt field holds by then: edits
\* of the field, selections of a profile and edits and deletes of
\* profiles while the job is Running or Stopping do not reach the worker.
C26_JobParametersAreCapturedAtStart ==
    /\ JobStarted =>
           workers[Len(workers)].parameters =
               [files |-> workers[Len(workers)].n,
                initial_prompt |-> last.before.store.input]
    /\ \A job \in DOMAIN workers :
           /\ workers[job].parameters.files = workers[job].n
           /\ \A i \in DOMAIN workers[job].read :
                  workers[job].read[i].parameters = workers[job].parameters

\* the worker has finished a file while the initial prompt field held
\* another text than the prompt the job was started with
C26_Witness ==
    \E job \in DOMAIN workers :
        \E i \in DOMAIN workers[job].read :
            /\ workers[job].read[i].field
                   # workers[job].parameters.initial_prompt
            /\ workers[job].read[i].parameters.initial_prompt
                   = workers[job].parameters.initial_prompt
            /\ initial_prompt_input # workers[job].parameters.initial_prompt

----------------------------------------------------------------------------
(* Properties of Start, the progress meter and the end of a job *)

\* the last iteration read Start with no input file or with an output
\* folder that is empty once stripped
MissingSelections ==
    /\ last.event = START
    /\ last.input.files = 0 \/ strip(last.input.output_dir) = ""

\* C40: a Start with no input file or with an empty output folder starts
\* no job: the transcriber is as it was, no worker is spawned, and the
\* "Missing selections" popup is made, tracked by the window tracker and
\* as a modal window; no other popup is opened.
C40_StartWithMissingSelectionsStartsNoJob ==
    MissingSelections =>
        /\ transcriber = last.before.transcriber
        /\ Len(workers) = last.before.jobs
        /\ last.popups = <<"Missing selections">>
        /\ \E w \in last.made :
               /\ window_kind[w] = "popup"
               /\ ~window_closed[w]
               /\ w \in window_tracker_windows
               /\ w \in SeqToSet(modal_window_stack)
               /\ \A other \in last.made \ {w} : window_kind[other] = "meter"
        /\ last.raised = ""
        /\ pc = "loop"

\* Start with two input files and an output folder of one blank
C40_Witness ==
    /\ last.event = START
    /\ last.input.files = 2
    /\ last.input.output_dir = " "
    /\ last.popups = <<"Missing selections">>
    /\ transcriber.state = "Idle"
    /\ workers = <<>>

\* the meter windows the last iteration made
MetersMade == {w \in last.made : window_kind[w] = "meter"}

\* C39: the progress meter is refreshed only in an iteration whose job is
\* Running when the statements after the handlers run; an iteration that
\* begins and ends with the job Stopping neither refreshes nor makes a
\* meter, and no meter is open while the loop runs with a job Stopping; a
\* Cancel on the meter is answered by one call of stop(), with the meter
\* closed in the same iteration.
C39_MeterOnlyWhileRunning ==
    /\ last.refreshed =>
           \/ transcriber.state = "Running"
           \/ /\ transcriber.state = "Stopping"
              /\ last.before.meter_cancelled
              /\ last.stop_calls = <<"signalled">>
    /\ MetersMade # {} => last.refreshed /\ transcriber.state = "Running"
    /\ (last.before.transcriber.state = "Stopping"
            /\ transcriber.state = "Stopping")
           => ~last.refreshed /\ MetersMade = {}
    /\ (pc = "loop" /\ transcriber.state = "Stopping") => active_meter = 0
    /\ (last.before.meter_cancelled /\ last.refreshed)
           => /\ Len(last.stop_calls) = 1
              /\ active_meter = 0
              /\ ~meter_cancelled
              /\ MetersMade = {}
    /\ (pc = "loop" /\ last.event # WIN_CLOSED) => Len(last.stop_calls) <= 1

\* Cancel was clicked on the meter of job 1; the job is Stopping, its
\* worker is still on a file, and the loop has run an iteration since
\* that left the meter closed
C39_Witness ==
    /\ pc = "loop"
    /\ last.event = TIMEOUT_EVENT
    /\ last.before.transcriber.state = "Stopping"
    /\ transcriber.state = "Stopping"
    /\ transcriber.transcribe_thread = 1
    /\ ~workers[1].ended
    /\ workers[1].stop
    /\ ~last.refreshed
    /\ active_meter = 0

----------------------------------------------------------------------------
(* Properties of the selection-changed events in the loop *)

\* the last iteration dispatched a selection-changed event
SelectionDispatched == last.event = PROMPT_PROFILE_DROPDOWN

SelectedInSettings ==
    user_settings_get_entry(user_settings, PROMPT_PROFILE_DROPDOWN, None)

\* C36: the dispatch of a selection-changed event that carries a saved
\* name puts the prompt of that profile in the initial prompt field, one
\* that carries the sentinel empties the field; either way the name is
\* written to the settings as the selected profile, and the saved
\* profiles and their settings entry are left as they were.
C36_SelectionSetsPromptAndIsPersisted ==
    (SelectionDispatched /\ last.raised = "") =>
        /\ HasKey(last.before.store.saved, last.input.name)
               => initial_prompt_input
                      = dict_getitem(last.before.store.saved, last.input.name)
        /\ last.input.name = unsaved_prompt_profile_name
               => initial_prompt_input = ""
        /\ SelectedInSettings = last.input.name
        /\ saved_prompt_profiles = last.before.store.saved
        /\ user_settings_get_entry(user_settings, SAVED_PROMPTS_SETTINGS, None)
               = user_settings_get_entry(last.before.store.settings,
                                         SAVED_PROMPTS_SETTINGS, None)
        /\ pc = "loop"

\* the user picks "B" while the field holds the prompt of "A"
C36_Witness ==
    /\ SelectionDispatched
    /\ last.input.name = "B"
    /\ last.before.store.input = "p1"
    /\ initial_prompt_input = "p2"
    /\ SelectedInSettings = "B"
    /\ last.before.store.settings[PROMPT_PROFILE_DROPDOWN] = "A"

\* C37: while the loop runs with no selection-changed event waiting, the
\* selected profile of the settings is the selection the dropdown shows,
\* and it is the sentinel or a saved profile.
C37_PersistedSelectionIsDropdownSelection ==
    (pc = "loop" /\ dropdown.bound /\ event_queue = <<>>) =>
        /\ SelectedInSettings = dropdown.value
        /\ \/ dropdown.value = unsaved_prompt_profile_name
           \/ HasKey(saved_prompt_profiles, dropdown.value)

\* the saved profiles are no longer the ones the loop started with: a
\* profile was saved or deleted since
StoreMutated ==
    /\ pc = "loop"
    /\ \A settings \in InitialSettings \ {NoSettings} :
           saved_prompt_profiles # settings[SAVED_PROMPTS_SETTINGS]

\* C38: once a profile was saved or deleted, while the dropdown is bound,
\* the options of the dropdown are the sentinel and the saved names in
\* their order and, with no selection-changed event waiting, the value the
\* dropdown shows is one of its options.
C38_DropdownFollowsTheStore ==
    (StoreMutated /\ dropdown.bound) =>
        /\ dropdown.values = prompt_profile_names(PM)
        /\ event_queue = <<>> => dropdown.value \in SeqToSet(dropdown.values)

----------------------------------------------------------------------------
(* Properties of the windows of the loop when the main window is remade    *)
(* and when the prompt manager window is reloaded.                         *)

\* C34: prompt_manager_window and add_new_prompt_window are each None or a
\* window that is open.
C34_WindowReferencesAreNeverStale ==
    /\ prompt_manager_window # 0 => ~window_closed[prompt_manager_window]
    /\ add_new_prompt_window # 0 => ~window_closed[add_new_prompt_window]

\* the prompt manager windows that are open
OpenPromptManagers ==
    {w \in DOMAIN window_closed :
        window_kind[w] = "prompt_manager" /\ ~window_closed[w]}

\* C35: the table of every open prompt manager window lists the saved
\* profiles as they are now, sorted by name, and no Edit Profile or Delete
\* Profile event carries a row that the saved profiles do not have.
C35_TableShowsTheSavedProfiles ==
    /\ \A w \in OpenPromptManagers :
           window_data[w].table
               = saved_prompt_profiles_list(saved_prompt_profiles_getter(PM))
    /\ last.raised # "IndexError"

\* the last iteration read Apply with a scaling that was accepted
ScalingApplied ==
    /\ last.event = APPLY_GLOBAL_SCALING
    /\ ~scaling_invalid(last.input.scaling)
    /\ last.raised = ""

\* C33: after an Apply that was accepted every window the tracker held is
\* closed and none of them is tracked any more; the main window of the
\* loop is a window made in the iteration, open and tracked, and the
\* dropdown the store updates is the one of that window, showing the saved
\* names.  While the loop runs the dropdown of the store is the one of the
\* loop's main window, and a close event of the main window ends the loop.
C33_ApplyScalingRemakesTheMainWindow ==
    /\ ScalingApplied =>
           /\ \A w \in last.before.windows.tracked : window_closed[w]
           /\ window_tracker_windows \cap last.before.windows.tracked = {}
           /\ main_window \in last.made
           /\ main_window \in window_tracker_windows
           /\ window_kind[main_window] = "main"
           /\ ~window_closed[main_window]
           /\ dropdown.bound
           /\ dropdown.values = prompt_profile_names(PM)
           /\ pc = "loop"
    /\ pc = "loop" =>
           /\ dropdown.bound
           /\ dropdown.window = main_window
           /\ ~window_closed[main_window]
    /\ (last.event = WIN_CLOSED /\ last.window = main_window) =>
           pc = "closed"

\* Apply is read with the main window and a prompt manager window tracked
C33_Witness ==
    /\ ScalingApplied
    /\ Cardinality(last.before.windows.tracked) >= 2
    /\ last.window \in last.before.windows.tracked
    /\ main_window # last.window

----------------------------------------------------------------------------
(* A job that was started comes to its end.                                *)

\* the terminal notification of the job was dispatched (done() is called
\* in that iteration, C17)
JobDone(job) ==
    /\ job \in DOMAIN job_log
    /\ job_log[job] # <<>>
    /\ Last(job_log[job]).kind \in TerminalEvents

\* a notification waits that the loop of the model cannot read: every
\* window of the model is in use and the iteration would open another
NoWindowLeft ==
    /\ pc = "loop"
    /\ thread_queue # <<>>
    /\ Len(window_closed) >= MaxWindows
    /\ ~ENABLED (DispatchProgress \/ DispatchSuccess \/ DispatchError
                    \/ DispatchStopped)

====
